---- MODULE Spec2Model ----
(***************************************************************************)
(* A model of the OPDS 2.0 document types of opds-rs and of their          *)
(* serde-derived parse (Deserialize) and encode (Serialize) operations.    *)
(*                                                                         *)
(* Every struct of src/v2_0 is transcribed as a table of field             *)
(* descriptors carrying its serde attributes (rename, default,             *)
(* skip_serializing_if, serialize_with, deserialize_with); the operators   *)
(* Deserialize and Serialize interpret those tables the way the code that  *)
(* serde derives from them does.  JSON text is modelled by the JSON value  *)
(* it denotes; strings are atoms.                                          *)
(***************************************************************************)
EXTENDS Integers, Sequences, FiniteSets, TLC

\* Longest list the enumerated documents and trees hold.
MaxLen == 2
\* Largest number (a position) the enumerated documents hold.
MaxPos == 2

(***************************************************************************)
(* JSON values: what serde_json reads from and writes to text.  An object  *)
(* is the sequence of its <<key, value>> entries in document order.        *)
(***************************************************************************)
JNull == [j |-> "null"]
JBool(b) == [j |-> "bool", b |-> b]
JNum(n) == [j |-> "num", n |-> n]
JStr(s) == [j |-> "str", s |-> s]
\* A number written with an exponent, m e+x with one digit m: m * 10^x.
JExp(m, x) == [j |-> "exp", m |-> m, x |-> x]
JSeq(items) == [j |-> "seq", items |-> items]
JObj(entries) == [j |-> "obj", entries |-> entries]

\* Result<T, Error>
Ok(v) == [ok |-> TRUE, val |-> v]
Err(kind, at) == [ok |-> FALSE, err |-> kind, at |-> at]

\* Option<T>
None == [some |-> FALSE]
Some(v) == [some |-> TRUE, val |-> v]

AllOk(rs) == \A i \in DOMAIN rs : rs[i].ok
FirstErr(rs) == rs[CHOOSE i \in DOMAIN rs : ~rs[i].ok /\ \A k \in 1..(i - 1) : rs[k].ok]
Vals(rs) == [i \in DOMAIN rs |-> rs[i].val]

\* One field of a struct with its serde attributes: the Rust name, the JSON
\* key (rename / rename_all), Option / Vec / Plain, the element type, whether
\* #[serde(default)] is set, and the skip_serializing_if, deserialize_with
\* and serialize_with paths ("" when absent).
Fld(name, key, wrap, ty, default, skip, de, ser) ==
  [name |-> name, key |-> key, wrap |-> wrap, ty |-> ty, default |-> default,
   skip |-> skip, de |-> de, ser |-> ser]

(***************************************************************************)
(* The structs and enums of src/v2_0/mod.rs and src/v2_0/metadata.rs.      *)
(***************************************************************************)
\* struct Link: src/src/v2_0/mod.rs:42-122
Link ==
  << Fld("title", "title", "Option", "String", FALSE, "Option::is_none", "", ""),
     Fld("href", "href", "Option", "String", FALSE, "Option::is_none", "", ""),
     Fld("templated", "templated", "Plain", "bool", TRUE, "std::ops::Not::not", "", ""),
     Fld("mime", "type", "Option", "String", FALSE, "Option::is_none", "", ""),
     Fld("rel", "rel", "Vec", "Relation", TRUE, "Vec::is_empty", "deserialize_flattened_vec", "serialize_flattened_vec"),
     Fld("properties", "properties", "Plain", "LinkProperties", TRUE, "LinkProperties::is_empty", "", ""),
     Fld("height", "height", "Option", "usize", FALSE, "Option::is_none", "", ""),
     Fld("width", "width", "Option", "usize", FALSE, "Option::is_none", "", ""),
     Fld("size", "size", "Option", "usize", FALSE, "Option::is_none", "", ""),
     Fld("bitrate", "bitrate", "Option", "f64", FALSE, "Option::is_none", "", ""),
     Fld("duration", "duration", "Option", "f64", FALSE, "Option::is_none", "", ""),
     Fld("language", "language", "Vec", "LangTag", TRUE, "Vec::is_empty", "", ""),
     Fld("alternate", "alternate", "Vec", "Link", TRUE, "Vec::is_empty", "", ""),
     Fld("children", "children", "Vec", "Link", TRUE, "Vec::is_empty", "", "") >>

\* Facet with links declared like the links of a Feed: defaulted when absent.
FacetLinksDefaulted ==
  << Fld("metadata", "metadata", "Plain", "FeedMetadata", FALSE, "", "", ""),
     Fld("links", "links", "Vec", "Link", TRUE, "Vec::is_empty", "", "") >>

\* struct Facet: src/src/v2_0/mod.rs:170-183
Facet ==
  << Fld("metadata", "metadata", "Plain", "FeedMetadata", FALSE, "", "", ""),
     Fld("links", "links", "Vec", "Link", FALSE, "", "", "") >>

\* struct Publication: src/src/v2_0/mod.rs:196-229
Publication ==
  << Fld("metadata", "metadata", "Plain", "PublicationMetadata", FALSE, "", "", ""),
     Fld("links", "links", "Vec", "Link", FALSE, "", "", ""),
     Fld("images", "images", "Vec", "Link", TRUE, "Vec::is_empty", "", "") >>

\* struct FeedGroup: src/src/v2_0/mod.rs:231-259
FeedGroup ==
  << Fld("metadata", "metadata", "Plain", "FeedMetadata", FALSE, "", "", ""),
     Fld("links", "links", "Vec", "Link", TRUE, "Vec::is_empty", "", ""),
     Fld("navigation", "navigation", "Vec", "Link", TRUE, "Vec::is_empty", "", ""),
     Fld("publications", "publications", "Vec", "Publication", TRUE, "Vec::is_empty", "", "") >>

\* struct Feed: src/src/v2_0/mod.rs:274-316
Feed ==
  << Fld("metadata", "metadata", "Plain", "FeedMetadata", FALSE, "", "", ""),
     Fld("links", "links", "Vec", "Link", TRUE, "Vec::is_empty", "", ""),
     Fld("navigation", "navigation", "Vec", "Link", TRUE, "Vec::is_empty", "", ""),
     Fld("facets", "facets", "Vec", "Facet", TRUE, "Vec::is_empty", "", ""),
     Fld("publications", "publications", "Vec", "Publication", TRUE, "Vec::is_empty", "", ""),
     Fld("groups", "groups", "Vec", "FeedGroup", TRUE, "Vec::is_empty", "", "") >>

\* struct Price: src/src/v2_0/metadata.rs:156-168
Price ==
  << Fld("value", "value", "Plain", "f32", FALSE, "", "", ""),
     Fld("currency", "currency", "Plain", "String", FALSE, "", "", "") >>

\* struct Acquisition: src/src/v2_0/metadata.rs:170-186
Acquisition ==
  << Fld("mime", "type", "Plain", "String", FALSE, "", "", ""),
     Fld("child", "child", "Vec", "Acquisition", TRUE, "Vec::is_empty", "", "") >>

\* struct Holds: src/src/v2_0/metadata.rs:188-197
Holds ==
  << Fld("total", "total", "Option", "usize", FALSE, "Option::is_none", "", ""),
     Fld("position", "position", "Option", "usize", FALSE, "Option::is_none", "", "") >>

\* struct Copies: src/src/v2_0/metadata.rs:199-208
Copies ==
  << Fld("total", "total", "Option", "usize", FALSE, "Option::is_none", "", ""),
     Fld("available", "available", "Option", "usize", FALSE, "Option::is_none", "", "") >>

\* struct Availability: src/src/v2_0/metadata.rs:221-235
Availability ==
  << Fld("state", "state", "Plain", "AvailabilityState", FALSE, "", "", ""),
     Fld("since", "since", "Option", "String", FALSE, "Option::is_none", "", ""),
     Fld("until", "until", "Option", "String", FALSE, "Option::is_none", "", "") >>

\* struct AltIdentifier: src/src/v2_0/metadata.rs:247-259
AltIdentifier ==
  << Fld("value", "value", "Plain", "String", FALSE, "", "", ""),
     Fld("scheme", "scheme", "Option", "Url", FALSE, "Option::is_none", "", "") >>

\* struct AccessbilityCertification: src/src/v2_0/metadata.rs:427-438
AccessbilityCertification ==
  << Fld("certified_by", "certifiedBy", "Option", "String", FALSE, "Option::is_none", "", ""),
     Fld("credential", "credential", "Option", "String", FALSE, "Option::is_none", "", ""),
     Fld("report", "report", "Option", "String", FALSE, "Option::is_none", "", "") >>

\* struct AccessibilityMetadata: src/src/v2_0/metadata.rs:440-474
AccessibilityMetadata ==
  << Fld("conforms_to", "conformsTo", "Vec", "Url", TRUE, "Vec::is_empty", "deserialize_flattened_vec", ""),
     Fld("exemption", "exemption", "Option", "AccessibilityExemption", FALSE, "Option::is_none", "", ""),
     Fld("access_mode", "accessMode", "Vec", "AccessMode", TRUE, "", "", ""),
     Fld("feature", "feature", "Vec", "AccessibilityFeature", TRUE, "", "", ""),
     Fld("hazard", "hazard", "Vec", "AccessibilityHazard", TRUE, "", "", ""),
     Fld("certification", "certification", "Option", "AccessbilityCertification", FALSE, "Option::is_none", "", ""),
     Fld("summary", "summary", "Option", "String", FALSE, "Option::is_none", "", "") >>

\* struct BelongsTo: src/src/v2_0/metadata.rs:476-552
BelongsTo ==
  << Fld("collection", "collection", "Vec", "Collection", TRUE, "Vec::is_empty", "deserialize_flattened_vec_stringy", ""),
     Fld("journal", "journal", "Vec", "Periodical", TRUE, "Vec::is_empty", "deserialize_flattened_vec_stringy", ""),
     Fld("magazine", "magazine", "Vec", "Periodical", TRUE, "Vec::is_empty", "deserialize_flattened_vec_stringy", ""),
     Fld("newspaper", "newspaper", "Vec", "Periodical", TRUE, "Vec::is_empty", "deserialize_flattened_vec_stringy", ""),
     Fld("periodical", "periodical", "Vec", "Periodical", TRUE, "Vec::is_empty", "deserialize_flattened_vec_stringy", ""),
     Fld("season", "season", "Vec", "Season", TRUE, "Vec::is_empty", "deserialize_flattened_vec_numlike", ""),
     Fld("series", "series", "Vec", "Series", TRUE, "Vec::is_empty", "deserialize_flattened_vec_stringy", ""),
     Fld("story_arc", "storyArc", "Vec", "StoryArc", TRUE, "Vec::is_empty", "deserialize_flattened_vec_numlike", ""),
     Fld("volume", "volume", "Vec", "Volume", TRUE, "Vec::is_empty", "deserialize_flattened_vec_numlike", "") >>

\* struct Collection: src/src/v2_0/metadata.rs:554-579
Collection ==
  << Fld("name", "name", "Plain", "StringWithAlternates", FALSE, "", "", ""),
     Fld("sort_as", "sortAs", "Option", "StringWithAlternates", FALSE, "Option::is_none", "", ""),
     Fld("identifier", "identifier", "Option", "Identifier", FALSE, "Option::is_none", "", ""),
     Fld("alt_identifier", "altIdentifier", "Vec", "AltIdentifier", TRUE, "Vec::is_empty", "deserialize_flattened_vec_stringy", ""),
     Fld("position", "position", "Option", "usize", FALSE, "Option::is_none", "", ""),
     Fld("links", "links", "Vec", "Link", TRUE, "Vec::is_empty", "", "") >>

\* struct Periodical: src/src/v2_0/metadata.rs:613-659
Periodical ==
  << Fld("name", "name", "Plain", "StringWithAlternates", FALSE, "", "", ""),
     Fld("sort_as", "sortAs", "Option", "StringWithAlternates", FALSE, "Option::is_none", "", ""),
     Fld("identifier", "identifier", "Option", "Identifier", FALSE, "Option::is_none", "", ""),
     Fld("alt_identifier", "altIdentifier", "Vec", "AltIdentifier", TRUE, "Vec::is_empty", "deserialize_flattened_vec_stringy", ""),
     Fld("position", "position", "Option", "usize", FALSE, "Option::is_none", "", ""),
     Fld("links", "links", "Vec", "Link", TRUE, "Vec::is_empty", "", ""),
     Fld("issue", "issue", "Vec", "Issue", TRUE, "Vec::is_empty", "deserialize_flattened_vec_numlike", ""),
     Fld("volume", "volume", "Vec", "Volume", TRUE, "Vec::is_empty", "deserialize_flattened_vec_numlike", "") >>

\* struct Episode: src/src/v2_0/metadata.rs:690-719
Episode ==
  << Fld("name", "name", "Option", "StringWithAlternates", FALSE, "Option::is_none", "", ""),
     Fld("sort_as", "sortAs", "Option", "StringWithAlternates", FALSE, "Option::is_none", "", ""),
     Fld("identifier", "identifier", "Option", "Identifier", FALSE, "Option::is_none", "", ""),
     Fld("alt_identifier", "altIdentifier", "Vec", "AltIdentifier", TRUE, "Vec::is_empty", "deserialize_flattened_vec_stringy", ""),
     Fld("position", "position", "Plain", "usize", FALSE, "", "", ""),
     Fld("links", "links", "Vec", "Link", TRUE, "Vec::is_empty", "", "") >>

\* struct Season: src/src/v2_0/metadata.rs:741-786
Season ==
  << Fld("name", "name", "Option", "StringWithAlternates", FALSE, "Option::is_none", "", ""),
     Fld("sort_as", "sortAs", "Option", "StringWithAlternates", FALSE, "Option::is_none", "", ""),
     Fld("identifier", "identifier", "Option", "Identifier", FALSE, "Option::is_none", "", ""),
     Fld("alt_identifier", "altIdentifier", "Vec", "AltIdentifier", TRUE, "Vec::is_empty", "deserialize_flattened_vec_stringy", ""),
     Fld("position", "position", "Plain", "usize", FALSE, "", "", ""),
     Fld("links", "links", "Vec", "Link", TRUE, "Vec::is_empty", "", ""),
     Fld("article", "article", "Vec", "Article", TRUE, "Vec::is_empty", "deserialize_flattened_vec_stringy", ""),
     Fld("chapter", "chapter", "Vec", "Chapter", TRUE, "Vec::is_empty", "deserialize_flattened_vec_numlike", "") >>

\* struct StoryArc: src/src/v2_0/metadata.rs:810-863
StoryArc ==
  << Fld("name", "name", "Option", "StringWithAlternates", FALSE, "Option::is_none", "", ""),
     Fld("sort_as", "sortAs", "Option", "StringWithAlternates", FALSE, "Option::is_none", "", ""),
     Fld("identifier", "identifier", "Option", "Identifier", FALSE, "Option::is_none", "", ""),
     Fld("alt_identifier", "altIdentifier", "Vec", "AltIdentifier", TRUE, "Vec::is_empty", "deserialize_flattened_vec_stringy", ""),
     Fld("position", "position", "Plain", "usize", FALSE, "", "", ""),
     Fld("links", "links", "Vec", "Link", TRUE, "Vec::is_empty", "", ""),
     Fld("chapter", "chapter", "Vec", "Chapter", TRUE, "Vec::is_empty", "deserialize_flattened_vec_numlike", ""),
     Fld("issue", "issue", "Vec", "Issue", TRUE, "Vec::is_empty", "deserialize_flattened_vec_numlike", ""),
     Fld("episode", "episode", "Vec", "Episode", TRUE, "Vec::is_empty", "deserialize_flattened_vec_numlike", "") >>

\* struct Issue: src/src/v2_0/metadata.rs:888-933
Issue ==
  << Fld("name", "name", "Option", "StringWithAlternates", FALSE, "Option::is_none", "", ""),
     Fld("sort_as", "sortAs", "Option", "StringWithAlternates", FALSE, "Option::is_none", "", ""),
     Fld("identifier", "identifier", "Option", "Identifier", FALSE, "Option::is_none", "", ""),
     Fld("alt_identifier", "altIdentifier", "Vec", "AltIdentifier", TRUE, "Vec::is_empty", "deserialize_flattened_vec_stringy", ""),
     Fld("position", "position", "Plain", "usize", FALSE, "", "", ""),
     Fld("links", "links", "Vec", "Link", TRUE, "Vec::is_empty", "", ""),
     Fld("article", "article", "Vec", "Article", TRUE, "Vec::is_empty", "deserialize_flattened_vec_stringy", ""),
     Fld("chapter", "chapter", "Vec", "Chapter", TRUE, "Vec::is_empty", "deserialize_flattened_vec_numlike", "") >>

\* struct Chapter: src/src/v2_0/metadata.rs:957-989
Chapter ==
  << Fld("name", "name", "Option", "StringWithAlternates", FALSE, "Option::is_none", "", ""),
     Fld("sort_as", "sortAs", "Option", "StringWithAlternates", FALSE, "Option::is_none", "", ""),
     Fld("identifier", "identifier", "Option", "Identifier", FALSE, "Option::is_none", "", ""),
     Fld("alt_identifier", "altIdentifier", "Vec", "AltIdentifier", TRUE, "Vec::is_empty", "deserialize_flattened_vec_stringy", ""),
     Fld("position", "position", "Plain", "usize", FALSE, "", "", ""),
     Fld("links", "links", "Vec", "Link", TRUE, "Vec::is_empty", "", ""),
     Fld("series", "series", "Vec", "Series", TRUE, "Vec::is_empty", "deserialize_flattened_vec_stringy", "") >>

\* struct Article: src/src/v2_0/metadata.rs:1012-1096
Article ==
  << Fld("name", "name", "Plain", "StringWithAlternates", FALSE, "", "", ""),
     Fld("sort_as", "sortAs", "Option", "StringWithAlternates", FALSE, "Option::is_none", "", ""),
     Fld("identifier", "identifier", "Option", "Identifier", FALSE, "Option::is_none", "", ""),
     Fld("alt_identifier", "altIdentifier", "Vec", "AltIdentifier", TRUE, "Vec::is_empty", "deserialize_flattened_vec_stringy", ""),
     Fld("author", "author", "Vec", "Contributor", TRUE, "Vec::is_empty", "deserialize_flattened_vec_stringy", ""),
     Fld("translator", "translator", "Vec", "Contributor", TRUE, "Vec::is_empty", "deserialize_flattened_vec_stringy", ""),
     Fld("editor", "editor", "Vec", "Contributor", TRUE, "Vec::is_empty", "deserialize_flattened_vec_stringy", ""),
     Fld("artist", "artist", "Vec", "Contributor", TRUE, "Vec::is_empty", "deserialize_flattened_vec_stringy", ""),
     Fld("illustrator", "illustrator", "Vec", "Contributor", TRUE, "Vec::is_empty", "deserialize_flattened_vec_stringy", ""),
     Fld("contributor", "contributor", "Vec", "Contributor", TRUE, "Vec::is_empty", "deserialize_flattened_vec_stringy", ""),
     Fld("description", "description", "Option", "String", FALSE, "Option::is_none", "", ""),
     Fld("number_of_pages", "numberOfPages", "Option", "usize", FALSE, "Option::is_none", "", ""),
     Fld("position", "position", "Option", "usize", FALSE, "Option::is_none", "", ""),
     Fld("links", "links", "Vec", "Link", TRUE, "Vec::is_empty", "", "") >>

\* struct Series: src/src/v2_0/metadata.rs:1134-1212
Series ==
  << Fld("name", "name", "Plain", "StringWithAlternates", FALSE, "", "", ""),
     Fld("sort_as", "sortAs", "Option", "StringWithAlternates", FALSE, "Option::is_none", "", ""),
     Fld("identifier", "identifier", "Option", "Identifier", FALSE, "Option::is_none", "", ""),
     Fld("alt_identifier", "altIdentifier", "Vec", "AltIdentifier", TRUE, "Vec::is_empty", "deserialize_flattened_vec_stringy", ""),
     Fld("position", "position", "Option", "usize", FALSE, "Option::is_none", "", ""),
     Fld("links", "links", "Vec", "Link", TRUE, "Vec::is_empty", "", ""),
     Fld("chapter", "chapter", "Vec", "Chapter", TRUE, "Vec::is_empty", "deserialize_flattened_vec_numlike", ""),
     Fld("episode", "episode", "Vec", "Episode", TRUE, "Vec::is_empty", "deserialize_flattened_vec_numlike", ""),
     Fld("issue", "issue", "Vec", "Issue", TRUE, "Vec::is_empty", "deserialize_flattened_vec_numlike", ""),
     Fld("season", "season", "Vec", "Season", TRUE, "Vec::is_empty", "deserialize_flattened_vec_numlike", ""),
     Fld("story_arc", "storyArc", "Vec", "StoryArc", TRUE, "Vec::is_empty", "deserialize_flattened_vec_numlike", ""),
     Fld("volume", "volume", "Vec", "Volume", TRUE, "Vec::is_empty", "deserialize_flattened_vec_numlike", "") >>

\* struct Volume: src/src/v2_0/metadata.rs:1247-1300
Volume ==
  << Fld("name", "name", "Option", "StringWithAlternates", FALSE, "Option::is_none", "", ""),
     Fld("sort_as", "sortAs", "Option", "StringWithAlternates", FALSE, "Option::is_none", "", ""),
     Fld("identifier", "identifier", "Option", "Identifier", FALSE, "Option::is_none", "", ""),
     Fld("alt_identifier", "altIdentifier", "Vec", "AltIdentifier", TRUE, "Vec::is_empty", "deserialize_flattened_vec_stringy", ""),
     Fld("position", "position", "Plain", "usize", FALSE, "", "", ""),
     Fld("links", "links", "Vec", "Link", TRUE, "Vec::is_empty", "", ""),
     Fld("chapter", "chapter", "Vec", "Chapter", TRUE, "Vec::is_empty", "deserialize_flattened_vec_numlike", ""),
     Fld("issue", "issue", "Vec", "Issue", TRUE, "Vec::is_empty", "deserialize_flattened_vec_numlike", ""),
     Fld("story_arc", "storyArc", "Vec", "StoryArc", TRUE, "Vec::is_empty", "deserialize_flattened_vec_numlike", "") >>

\* struct Contains: src/src/v2_0/metadata.rs:1325-1393
Contains ==
  << Fld("article", "article", "Vec", "Article", TRUE, "Vec::is_empty", "deserialize_flattened_vec_stringy", ""),
     Fld("chapter", "chapter", "Vec", "Chapter", TRUE, "Vec::is_empty", "deserialize_flattened_vec_numlike", ""),
     Fld("episode", "episode", "Vec", "Episode", TRUE, "Vec::is_empty", "deserialize_flattened_vec_numlike", ""),
     Fld("issue", "issue", "Vec", "Issue", TRUE, "Vec::is_empty", "deserialize_flattened_vec_numlike", ""),
     Fld("season", "season", "Vec", "Season", TRUE, "Vec::is_empty", "deserialize_flattened_vec_numlike", ""),
     Fld("series", "series", "Vec", "Series", TRUE, "Vec::is_empty", "deserialize_flattened_vec_stringy", ""),
     Fld("story_arc", "storyArc", "Vec", "StoryArc", TRUE, "Vec::is_empty", "deserialize_flattened_vec_numlike", ""),
     Fld("volume", "volume", "Vec", "Volume", TRUE, "Vec::is_empty", "deserialize_flattened_vec_numlike", "") >>

\* struct Subject: src/src/v2_0/metadata.rs:1395-1418
Subject ==
  << Fld("name", "name", "Plain", "StringWithAlternates", FALSE, "", "", ""),
     Fld("sort_as", "sortAs", "Option", "StringWithAlternates", FALSE, "Option::is_none", "", ""),
     Fld("code", "code", "Option", "String", FALSE, "Option::is_none", "", ""),
     Fld("scheme", "scheme", "Option", "Url", FALSE, "Option::is_none", "", ""),
     Fld("links", "links", "Vec", "Link", TRUE, "Vec::is_empty", "", "") >>

\* struct DataMining: src/src/v2_0/metadata.rs:1446-1458
DataMining ==
  << Fld("reservation", "reservation", "Plain", "Reservation", FALSE, "", "", ""),
     Fld("policy", "policy", "Option", "Url", FALSE, "Option::is_none", "", "") >>

\* struct Contributor: src/src/v2_0/metadata.rs:1618-1646
Contributor ==
  << Fld("name", "name", "Plain", "StringWithAlternates", FALSE, "", "", ""),
     Fld("sort_as", "sortAs", "Option", "StringWithAlternates", FALSE, "Option::is_none", "", ""),
     Fld("identifier", "identifier", "Option", "Identifier", FALSE, "Option::is_none", "", ""),
     Fld("alt_identifier", "altIdentifier", "Vec", "AltIdentifier", TRUE, "Vec::is_empty", "deserialize_flattened_vec_stringy", ""),
     Fld("role", "role", "Vec", "String", TRUE, "Vec::is_empty", "", ""),
     Fld("links", "links", "Vec", "Link", TRUE, "Vec::is_empty", "", "") >>

\* struct FeedMetadata: src/src/v2_0/metadata.rs:1675-1717
FeedMetadata ==
  << Fld("title", "title", "Plain", "StringWithAlternates", FALSE, "", "", ""),
     Fld("subtitle", "subtitle", "Vec", "StringWithAlternates", TRUE, "Vec::is_empty", "deserialize_flattened_vec_stringy", ""),
     Fld("identifier", "identifier", "Option", "Url", FALSE, "Option::is_none", "", ""),
     Fld("schema", "@type", "Option", "String", FALSE, "Option::is_none", "", ""),
     Fld("modified", "modified", "Option", "String", FALSE, "Option::is_none", "", ""),
     Fld("description", "description", "Option", "String", FALSE, "Option::is_none", "", ""),
     Fld("items_per_page", "itemsPerPage", "Option", "usize", FALSE, "Option::is_none", "", ""),
     Fld("current_page", "currentPage", "Option", "usize", FALSE, "Option::is_none", "", ""),
     Fld("number_of_items", "numberOfItems", "Option", "usize", FALSE, "Option::is_none", "", "") >>

\* struct PublicationMetadata: src/src/v2_0/metadata.rs:1737-2017
PublicationMetadata ==
  << Fld("schema", "@type", "Option", "String", FALSE, "Option::is_none", "", ""),
     Fld("conforms_to", "conformsTo", "Vec", "Url", TRUE, "Vec::is_empty", "", ""),
     Fld("title", "title", "Plain", "StringWithAlternates", FALSE, "", "", ""),
     Fld("sort_as", "sortAs", "Option", "StringWithAlternates", FALSE, "Option::is_none", "", ""),
     Fld("subtitle", "subtitle", "Option", "StringWithAlternates", FALSE, "Option::is_none", "", ""),
     Fld("author", "author", "Vec", "Contributor", TRUE, "Vec::is_empty", "deserialize_flattened_vec_stringy", ""),
     Fld("description", "description", "Option", "String", FALSE, "Option::is_none", "", ""),
     Fld("identifier", "identifier", "Option", "Url", FALSE, "Option::is_none", "", ""),
     Fld("alt_identifier", "altIdentifier", "Vec", "AltIdentifier", TRUE, "Vec::is_empty", "deserialize_flattened_vec_stringy", ""),
     Fld("accessibility", "accessibility", "Option", "AccessibilityMetadata", FALSE, "Option::is_none", "", ""),
     Fld("modified", "modified", "Option", "String", FALSE, "Option::is_none", "", ""),
     Fld("published", "published", "Option", "String", FALSE, "Option::is_none", "", ""),
     Fld("language", "language", "Vec", "LangTag", TRUE, "Vec::is_empty", "deserialize_flattened_vec", ""),
     Fld("subject", "subject", "Vec", "Subject", TRUE, "Vec::is_empty", "", ""),
     Fld("layout", "layout", "Option", "PublicationLayout", FALSE, "Option::is_none", "", ""),
     Fld("reading_progression", "readingProgression", "Option", "ReadingProgression", FALSE, "Option::is_none", "", ""),
     Fld("duration", "duration", "Option", "usize", FALSE, "Option::is_none", "", ""),
     Fld("abridged", "abridged", "Option", "bool", FALSE, "Option::is_none", "", ""),
     Fld("number_of_pages", "numberOfPages", "Option", "usize", FALSE, "Option::is_none", "", ""),
     Fld("belongs_to", "belongsTo", "Option", "BelongsTo", FALSE, "Option::is_none", "", ""),
     Fld("contains", "contains", "Option", "Contains", FALSE, "Option::is_none", "", ""),
     Fld("tdm", "tdm", "Option", "DataMining", FALSE, "Option::is_none", "", ""),
     Fld("translator", "translator", "Vec", "Contributor", TRUE, "Vec::is_empty", "deserialize_flattened_vec_stringy", ""),
     Fld("editor", "editor", "Vec", "Contributor", TRUE, "Vec::is_empty", "deserialize_flattened_vec_stringy", ""),
     Fld("artist", "artist", "Vec", "Contributor", TRUE, "Vec::is_empty", "deserialize_flattened_vec_stringy", ""),
     Fld("illustrator", "illustrator", "Vec", "Contributor", TRUE, "Vec::is_empty", "deserialize_flattened_vec_stringy", ""),
     Fld("letterer", "letterer", "Vec", "Contributor", TRUE, "Vec::is_empty", "deserialize_flattened_vec_stringy", ""),
     Fld("penciler", "penciler", "Vec", "Contributor", TRUE, "Vec::is_empty", "deserialize_flattened_vec_stringy", ""),
     Fld("colorist", "colorist", "Vec", "Contributor", TRUE, "Vec::is_empty", "deserialize_flattened_vec_stringy", ""),
     Fld("inker", "inker", "Vec", "Contributor", TRUE, "Vec::is_empty", "deserialize_flattened_vec_stringy", ""),
     Fld("narrator", "narrator", "Vec", "Contributor", TRUE, "Vec::is_empty", "deserialize_flattened_vec_stringy", ""),
     Fld("contributor", "contributor", "Vec", "Contributor", TRUE, "Vec::is_empty", "deserialize_flattened_vec_stringy", ""),
     Fld("publisher", "publisher", "Vec", "Contributor", TRUE, "Vec::is_empty", "deserialize_flattened_vec_stringy", ""),
     Fld("imprint", "imprint", "Vec", "Contributor", TRUE, "Vec::is_empty", "deserialize_flattened_vec_stringy", "") >>

\* struct LinkProperties: src/src/v2_0/metadata.rs:2063-2100
LinkProperties ==
  << Fld("count", "numberOfItems", "Option", "usize", FALSE, "Option::is_none", "", ""),
     Fld("page", "page", "Option", "PageDisplay", FALSE, "Option::is_none", "", ""),
     Fld("availability", "availability", "Option", "Availability", FALSE, "Option::is_none", "", ""),
     Fld("price", "price", "Option", "Price", FALSE, "Option::is_none", "", ""),
     Fld("indirect_acquisition", "indirectAcquisition", "Vec", "Acquisition", TRUE, "Vec::is_empty", "", ""),
     Fld("holds", "holds", "Option", "Holds", FALSE, "Option::is_none", "", ""),
     Fld("copies", "copies", "Option", "Copies", FALSE, "Option::is_none", "", "") >>

\* AcquisitionKind with Preview renamed under the acquisition base like its
\* five siblings: the table a uniform naming would give.
AcquisitionKindUniform ==
  << <<"Fallback", "http://opds-spec.org/acquisition">>, <<"OpenAccess", "http://opds-spec.org/acquisition/open-access">>, <<"Buy", "http://opds-spec.org/acquisition/buy">>,
     <<"Sample", "http://opds-spec.org/acquisition/sample">>, <<"Subscribe", "http://opds-spec.org/acquisition/subscribe">>, <<"Preview", "http://opds-spec.org/acquisition/preview">> >>

\* AcquisitionKind with Sample renamed to a string of the fixed relation table.
AcquisitionKindColliding ==
  << <<"Fallback", "http://opds-spec.org/acquisition">>, <<"OpenAccess", "http://opds-spec.org/acquisition/open-access">>, <<"Buy", "http://opds-spec.org/acquisition/buy">>,
     <<"Sample", "search">>, <<"Subscribe", "http://opds-spec.org/acquisition/subscribe">>, <<"Preview", "preview">> >>

\* enum AcquisitionKind: src/src/v2_0/metadata.rs:96-127 (variant, serialized name)
AcquisitionKind ==
  << <<"Fallback", "http://opds-spec.org/acquisition">>, <<"OpenAccess", "http://opds-spec.org/acquisition/open-access">>, <<"Buy", "http://opds-spec.org/acquisition/buy">>,
     <<"Sample", "http://opds-spec.org/acquisition/sample">>, <<"Subscribe", "http://opds-spec.org/acquisition/subscribe">>, <<"Preview", "preview">> >>

\* enum PageDisplay: src/src/v2_0/metadata.rs:129-135 (variant, serialized name)
PageDisplay ==
  << <<"Left", "left">>, <<"Right", "right">>, <<"Center", "center">> >>

\* enum PublicationLayout: src/src/v2_0/metadata.rs:137-144 (variant, serialized name)
PublicationLayout ==
  << <<"Fixed", "fixed">>, <<"Reflowable", "reflowable">>, <<"Scrolled", "scrolled">> >>

\* enum ReadingProgression: src/src/v2_0/metadata.rs:146-154 (variant, serialized name)
ReadingProgression ==
  << <<"RightToLeft", "rtl">>, <<"LeftToRight", "ltr">> >>

\* enum AvailabilityState: src/src/v2_0/metadata.rs:210-219 (variant, serialized name)
AvailabilityState ==
  << <<"Available", "available">>, <<"Unavailable", "unavailable">>, <<"Reserved", "reserved">>,
     <<"Ready", "ready">> >>

\* enum AccessMode: src/src/v2_0/metadata.rs:282-296 (variant, serialized name)
AccessMode ==
  << <<"Auditory", "auditory">>, <<"ChartOnVisual", "chartOnVisual">>, <<"ChemOnVisual", "chemOnVisual">>,
     <<"ColorDependent", "colorDependent">>, <<"DiagramOnVisual", "diagramOnVisual">>, <<"MathOnVisual", "mathOnVisual">>,
     <<"MusicOnVisual", "musicOnVisual">>, <<"Tactile", "tactile">>, <<"TextOnVisual", "textOnVisual">>,
     <<"Textual", "textual">>, <<"Visual", "visual">> >>

\* enum AccessibilityExemption: src/src/v2_0/metadata.rs:298-305 (variant, serialized name)
AccessibilityExemption ==
  << <<"EaaDisproportionateBurden", "eaa-disproportionate-burden">>, <<"EaaFundamentalAlteration", "eaa-fundamental-alteration">>, <<"EaaMicroenterprise", "eaa-microenterprise">> >>

\* enum AccessibilityFeature: src/src/v2_0/metadata.rs:307-398 (variant, serialized name)
AccessibilityFeature ==
  << <<"Annotations", "annotations">>, <<"Aria", "ARIA">>, <<"Bookmarks", "bookmarks">>,
     <<"Index", "index">>, <<"PageBreakMarkers", "pageBreakMarkers">>, <<"PrintPageNumbers", "printPageNumbers">>,
     <<"PageNavigation", "pageNavigation">>, <<"ReadingOrder", "readingOrder">>, <<"StructuralNavigation", "structuralNavigation">>,
     <<"TableOfContents", "tableOfContents">>, <<"TaggedPdf", "taggedPDF">>, <<"AlternativeText", "alternativeText">>,
     <<"AudioDescription", "audioDescription">>, <<"CloseCaptions", "closeCaptions">>, <<"Captions", "captions">>,
     <<"DescribedMath", "describedMath">>, <<"LongDescription", "longDescription">>, <<"OpenCaptions", "openCaptions">>,
     <<"SignLanguage", "signLanguage">>, <<"Transcript", "transcript">>, <<"DisplayTransformability", "displayTransformability">>,
     <<"SynchronizedAudioText", "synchronizedAudioText">>, <<"TimingControl", "timingControl">>, <<"Unlocked", "unlocked">>,
     <<"ChemMl", "ChemML">>, <<"Latex", "latex">>, <<"LatexChemistry", "latex-chemistry">>,
     <<"MathMl", "MathML">>, <<"MathMlChemistry", "MathML-chemistry">>, <<"TtsMarkup", "ttsMarkup">>,
     <<"HighContrastAudio", "highContrastAudio">>, <<"HighContrastDisplay", "highContrastDisplay">>, <<"LargePrint", "largePrint">>,
     <<"Braille", "braille">>, <<"TactileGraphic", "tactileGraphic">>, <<"TactileObject", "tactileObject">>,
     <<"FullRubyAnnotations", "fullRubyAnnotations">>, <<"HorizontalWriting", "horizontalWriting">>, <<"RubyAnnotations", "rubyAnnotations">>,
     <<"VerticalWriting", "verticalWriting">>, <<"WithAdditionalWordSegmentation", "withAdditionalWordSegmentation">>, <<"WithoutAdditionalWordSegmentation", "withoutAdditionalWordSegmentation">>,
     <<"None", "none">>, <<"Unknown", "unknown">> >>

\* enum AccessibilityHazard: src/src/v2_0/metadata.rs:400-425 (variant, serialized name)
AccessibilityHazard ==
  << <<"Flashing", "flashing">>, <<"MotionSimulation", "motionSimulation">>, <<"Sound", "sound">>,
     <<"None", "none">>, <<"NoFlashingHazard", "noFlashingHazard">>, <<"NoMotionSimulationHazard", "noMotionSimulationHazard">>,
     <<"NoSoundHazard", "noSoundHazard">>, <<"Unknown", "unknown">>, <<"UnknownFlashingHazard", "unknownFlashingHazard">>,
     <<"UnknownMotionSimulationHazard", "unknownMotionSimulationHazard">>, <<"UnknownSoundHazard", "unknownSoundHazard">> >>

\* enum Reservation: src/src/v2_0/metadata.rs:1460-1466 (variant, serialized name)
Reservation ==
  << <<"All", "all">>, <<"None", "none">> >>

\* enum Relation, its unit variants: src/src/v2_0/metadata.rs:10-78 (variant, serialized name)
RelationUnit ==
  << <<"Myself", "self">>, <<"Alternate", "alternate">>, <<"Contents", "contents">>,
     <<"Cover", "cover">>, <<"Manifest", "manifest">>, <<"Profile", "profile">>,
     <<"First", "first">>, <<"Previous", "previous">>, <<"Next", "next">>,
     <<"Last", "last">>, <<"Current", "current">>, <<"Search", "search">>,
     <<"Subsection", "subsection">>, <<"SortNew", "http://opds-spec.org/sort/new">>, <<"SortPopular", "http://opds-spec.org/sort/popular">> >>

StructNames ==
  {"Link", "Facet", "Publication", "FeedGroup", "Feed", "Price", "Acquisition", "Holds", "Copies", "Availability", "AltIdentifier", "AccessbilityCertification", "AccessibilityMetadata", "BelongsTo", "Collection", "Periodical", "Episode", "Season", "StoryArc", "Issue", "Chapter", "Article", "Series", "Volume", "Contains", "Subject", "DataMining", "Contributor", "FeedMetadata", "PublicationMetadata", "LinkProperties"}

Schema(ty) ==
  CASE ty = "Link" -> Link
    [] ty = "Facet" -> Facet
    [] ty = "Publication" -> Publication
    [] ty = "FeedGroup" -> FeedGroup
    [] ty = "Feed" -> Feed
    [] ty = "Price" -> Price
    [] ty = "Acquisition" -> Acquisition
    [] ty = "Holds" -> Holds
    [] ty = "Copies" -> Copies
    [] ty = "Availability" -> Availability
    [] ty = "AltIdentifier" -> AltIdentifier
    [] ty = "AccessbilityCertification" -> AccessbilityCertification
    [] ty = "AccessibilityMetadata" -> AccessibilityMetadata
    [] ty = "BelongsTo" -> BelongsTo
    [] ty = "Collection" -> Collection
    [] ty = "Periodical" -> Periodical
    [] ty = "Episode" -> Episode
    [] ty = "Season" -> Season
    [] ty = "StoryArc" -> StoryArc
    [] ty = "Issue" -> Issue
    [] ty = "Chapter" -> Chapter
    [] ty = "Article" -> Article
    [] ty = "Series" -> Series
    [] ty = "Volume" -> Volume
    [] ty = "Contains" -> Contains
    [] ty = "Subject" -> Subject
    [] ty = "DataMining" -> DataMining
    [] ty = "Contributor" -> Contributor
    [] ty = "FeedMetadata" -> FeedMetadata
    [] ty = "PublicationMetadata" -> PublicationMetadata
    [] ty = "LinkProperties" -> LinkProperties

UnitEnumNames ==
  {"AcquisitionKind", "PageDisplay", "PublicationLayout", "ReadingProgression", "AvailabilityState", "AccessMode", "AccessibilityExemption", "AccessibilityFeature", "AccessibilityHazard", "Reservation"}

UnitEnum(ty) ==
  CASE ty = "AcquisitionKind" -> AcquisitionKind
    [] ty = "PageDisplay" -> PageDisplay
    [] ty = "PublicationLayout" -> PublicationLayout
    [] ty = "ReadingProgression" -> ReadingProgression
    [] ty = "AvailabilityState" -> AvailabilityState
    [] ty = "AccessMode" -> AccessMode
    [] ty = "AccessibilityExemption" -> AccessibilityExemption
    [] ty = "AccessibilityFeature" -> AccessibilityFeature
    [] ty = "AccessibilityHazard" -> AccessibilityHazard
    [] ty = "Reservation" -> Reservation

(***************************************************************************)
(* Constructors and From conversions.  A struct value is the function from *)
(* its Rust field names to their values.                                   *)
(***************************************************************************)
\* StringWithAlternates::Always / ::Variants; From<Cow<str>> gives Always.
Always(s) == [variant |-> "Always", s |-> s]
Variants(choices) == [variant |-> "Variants", choices |-> choices]

\* TaggedStrings::from_static: the slice is kept as given.
from_static(choices) == choices

AltIdentifierNew(value) == [value |-> value, scheme |-> None]

CollectionNew(name) ==
  [name |-> name, sort_as |-> None, identifier |-> None, alt_identifier |-> <<>>,
   position |-> None, links |-> <<>>]

PeriodicalNew(name) ==
  [name |-> name, sort_as |-> None, identifier |-> None, alt_identifier |-> <<>>,
   position |-> None, links |-> <<>>, issue |-> <<>>, volume |-> <<>>]

EpisodeNew(position) ==
  [position |-> position, name |-> None, sort_as |-> None, identifier |-> None,
   alt_identifier |-> <<>>, links |-> <<>>]

SeasonNew(position) ==
  [position |-> position, name |-> None, sort_as |-> None, identifier |-> None,
   alt_identifier |-> <<>>, links |-> <<>>, article |-> <<>>, chapter |-> <<>>]

StoryArcNew(position) ==
  [position |-> position, name |-> None, sort_as |-> None, identifier |-> None,
   alt_identifier |-> <<>>, links |-> <<>>, chapter |-> <<>>, issue |-> <<>>,
   episode |-> <<>>]

IssueNew(position) ==
  [position |-> position, name |-> None, sort_as |-> None, identifier |-> None,
   alt_identifier |-> <<>>, links |-> <<>>, article |-> <<>>, chapter |-> <<>>]

ChapterNew(position) ==
  [position |-> position, name |-> None, sort_as |-> None, identifier |-> None,
   alt_identifier |-> <<>>, links |-> <<>>, series |-> <<>>]

ArticleNew(name) ==
  [name |-> name, sort_as |-> None, identifier |-> None, alt_identifier |-> <<>>,
   author |-> <<>>, translator |-> <<>>, editor |-> <<>>, artist |-> <<>>,
   illustrator |-> <<>>, contributor |-> <<>>, description |-> None,
   number_of_pages |-> None, position |-> None, links |-> <<>>]

SeriesNew(name) ==
  [name |-> name, sort_as |-> None, identifier |-> None, alt_identifier |-> <<>>,
   position |-> None, links |-> <<>>, chapter |-> <<>>, episode |-> <<>>,
   issue |-> <<>>, season |-> <<>>, story_arc |-> <<>>, volume |-> <<>>]

VolumeNew(position) ==
  [position |-> position, name |-> None, sort_as |-> None, identifier |-> None,
   alt_identifier |-> <<>>, links |-> <<>>, chapter |-> <<>>, issue |-> <<>>,
   story_arc |-> <<>>]

SubjectNew(name) ==
  [name |-> name, sort_as |-> None, code |-> None, scheme |-> None, links |-> <<>>]

ContributorNew(name) ==
  [name |-> name, sort_as |-> None, identifier |-> None, alt_identifier |-> <<>>,
   role |-> <<>>, links |-> <<>>]

FeedMetadataNew(title) ==
  [title |-> title, subtitle |-> <<>>, description |-> None, modified |-> None,
   identifier |-> None, schema |-> None, items_per_page |-> None,
   current_page |-> None, number_of_items |-> None]

\* #[derive(Default)] for LinkProperties
LinkPropertiesDefault ==
  [count |-> None, page |-> None, availability |-> None, price |-> None,
   indirect_acquisition |-> <<>>, holds |-> None, copies |-> None]

LinkNew(href, mime) ==
  [href |-> Some(href), templated |-> FALSE, mime |-> mime, title |-> None,
   rel |-> <<>>, properties |-> LinkPropertiesDefault, height |-> None,
   width |-> None, size |-> None, bitrate |-> None, duration |-> None,
   language |-> <<>>, alternate |-> <<>>, children |-> <<>>]

\* Link::template without the flag: the link Link::new gives.
LinkTemplateUnflagged(href, mime) ==
  [href |-> Some(href), templated |-> FALSE, mime |-> mime, title |-> None,
   rel |-> <<>>, properties |-> LinkPropertiesDefault, height |-> None,
   width |-> None, size |-> None, bitrate |-> None, duration |-> None,
   language |-> <<>>, alternate |-> <<>>, children |-> <<>>]

LinkTemplate(href, mime) ==
  [href |-> Some(href), templated |-> TRUE, mime |-> mime, title |-> None,
   rel |-> <<>>, properties |-> LinkPropertiesDefault, height |-> None,
   width |-> None, size |-> None, bitrate |-> None, duration |-> None,
   language |-> <<>>, alternate |-> <<>>, children |-> <<>>]

FacetNew(title) == [metadata |-> FeedMetadataNew(title), links |-> <<>>]

FeedGroupNew(title) ==
  [metadata |-> FeedMetadataNew(title), links |-> <<>>, navigation |-> <<>>,
   publications |-> <<>>]

FeedNew(title) ==
  [metadata |-> FeedMetadataNew(title), links |-> <<>>, navigation |-> <<>>,
   facets |-> <<>>, publications |-> <<>>, groups |-> <<>>]

with_link(self, link) == [self EXCEPT !.links = Append(@, link)]
\* with_navigation pushing onto the links of the feed.
with_navigation_links(self, link) == [self EXCEPT !.links = Append(@, link)]
with_navigation(self, link) == [self EXCEPT !.navigation = Append(@, link)]
with_facet(self, facet) == [self EXCEPT !.facets = Append(@, facet)]
with_publication(self, publication) ==
  [self EXCEPT !.publications = Append(@, publication)]
with_group(self, group) == [self EXCEPT !.groups = Append(@, group)]

\* Relation values.  impl From<String> for Relation wraps every string in
\* Custom, whatever the string is.
RelUnit(v) == [variant |-> v]
RelAcquisition(kind) == [variant |-> "Acquisition", kind |-> kind]
RelCustom(s) == [variant |-> "Custom", s |-> s]
RelationFromString(value) == RelCustom(value)

\* Relation::as_acquisition
as_acquisition(self) ==
  IF self.variant = "Acquisition" THEN Some(self.kind) ELSE None

\* get_acquisition yielding the last acquisition entry of the list.
get_acquisition_last(self) ==
  LET found == SelectSeq([i \in DOMAIN self.rel |-> as_acquisition(self.rel[i])],
                         LAMBDA o : o.some)
  IN IF Len(found) = 0 THEN None ELSE found[Len(found)]

\* Link::get_acquisition: self.rel.iter().flat_map(as_acquisition).next()
get_acquisition(self) ==
  LET found == SelectSeq([i \in DOMAIN self.rel |-> as_acquisition(self.rel[i])],
                         LAMBDA o : o.some)
  IN IF Len(found) = 0 THEN None ELSE found[1]

\* From<usize> that drops its argument and leaves the position at zero.
FromUsizeZero(ty, position) ==
  CASE ty = "Episode" -> EpisodeNew(0)
    [] ty = "Season" -> SeasonNew(0)
    [] ty = "StoryArc" -> StoryArcNew(0)
    [] ty = "Issue" -> IssueNew(0)
    [] ty = "Chapter" -> ChapterNew(0)
    [] ty = "Volume" -> VolumeNew(0)

\* impl From<usize> for Episode, Season, StoryArc, Issue, Chapter, Volume
FromUsize(ty, position) ==
  CASE ty = "Episode" -> EpisodeNew(position)
    [] ty = "Season" -> SeasonNew(position)
    [] ty = "StoryArc" -> StoryArcNew(position)
    [] ty = "Issue" -> IssueNew(position)
    [] ty = "Chapter" -> ChapterNew(position)
    [] ty = "Volume" -> VolumeNew(position)

\* From<Cow<str>> that also files the string as the sort key of the entity
\* (as the scheme of an AltIdentifier).
FromCowStrSorted(ty, s) ==
  CASE ty = "AltIdentifier" -> [AltIdentifierNew(s) EXCEPT !.scheme = Some(s)]
    [] ty = "Collection" -> [CollectionNew(Always(s)) EXCEPT !.sort_as = Some(Always(s))]
    [] ty = "Periodical" -> [PeriodicalNew(Always(s)) EXCEPT !.sort_as = Some(Always(s))]
    [] ty = "Article" -> [ArticleNew(Always(s)) EXCEPT !.sort_as = Some(Always(s))]
    [] ty = "Series" -> [SeriesNew(Always(s)) EXCEPT !.sort_as = Some(Always(s))]
    [] ty = "Subject" -> [SubjectNew(Always(s)) EXCEPT !.sort_as = Some(Always(s))]
    [] ty = "Contributor" -> [ContributorNew(Always(s)) EXCEPT !.sort_as = Some(Always(s))]
    [] ty = "StringWithAlternates" -> Always(s)

\* impl From<Cow<str>> for AltIdentifier, Collection, Periodical, Article,
\* Series, Subject, Contributor and StringWithAlternates
FromCowStr(ty, s) ==
  CASE ty = "AltIdentifier" -> AltIdentifierNew(s)
    [] ty = "Collection" -> CollectionNew(Always(s))
    [] ty = "Periodical" -> PeriodicalNew(Always(s))
    [] ty = "Article" -> ArticleNew(Always(s))
    [] ty = "Series" -> SeriesNew(Always(s))
    [] ty = "Subject" -> SubjectNew(Always(s))
    [] ty = "Contributor" -> ContributorNew(Always(s))
    [] ty = "StringWithAlternates" -> Always(s)

(***************************************************************************)
(* External parsers: url::Url, urn::Urn and langtag::LangTag validate the  *)
(* string; Url also normalises it (an authority with an empty path gains   *)
(* "/").  They are given by tables over the strings the documents use.     *)
(***************************************************************************)
UrlParse(s) ==
  CASE s = "http://a.org" -> Ok("http://a.org/")
    [] s \in {"http://a.org/", "http://b.org/x", "urn:isbn:1"} -> Ok(s)
    [] OTHER -> Err("invalid value", "Url")

UrnParse(s) == IF s \in {"urn:isbn:1"} THEN Ok(s) ELSE Err("invalid value", "Urn")

\* The language tags of the documents, in the order of LangTagBuf's Ord.
LangTags == <<"de", "en", "fr">>
LangTagParse(s) ==
  IF \E i \in DOMAIN LangTags : LangTags[i] = s THEN Ok(s)
  ELSE Err("invalid value", "LangTag")
LangTagRank(s) == CHOOSE i \in DOMAIN LangTags : LangTags[i] = s

(***************************************************************************)
(* Deserialize                                                             *)
(***************************************************************************)
\* VariantOf with a catch-all: a name outside the enum selects its first
\* variant.
VariantOfOther(variants, s) ==
  IF \E i \in DOMAIN variants : variants[i][2] = s
  THEN Ok(variants[CHOOSE i \in DOMAIN variants : variants[i][2] = s][1])
  ELSE Ok(variants[1][1])

\* The variant a serialized name selects, for an enum of unit variants.
VariantOf(variants, s) ==
  IF \E i \in DOMAIN variants : variants[i][2] = s
  THEN Ok(variants[CHOOSE i \in DOMAIN variants : variants[i][2] = s][1])
  ELSE Err("unknown variant", s)

\* #[derive(Deserialize)] on an enum of unit variants: the name as a string,
\* or the one-entry object {name: null}.
DeserializeUnitEnum(variants, j) ==
  IF j.j = "str" THEN VariantOf(variants, j.s)
  ELSE IF j.j = "obj" /\ Len(j.entries) = 1 /\ j.entries[1][2] = JNull
       THEN VariantOf(variants, j.entries[1][1])
  ELSE Err("invalid type", "enum")

\* Relation with its untagged variants declared in the other order: Custom
\* takes every string the unit variants leave.
DeserializeRelationCustomFirst(j) ==
  LET unit == DeserializeUnitEnum(RelationUnit, j)
      acq == DeserializeUnitEnum(AcquisitionKind, j)
  IN IF unit.ok THEN Ok(RelUnit(unit.val))
     ELSE IF j.j = "str" THEN Ok(RelCustom(j.s))
     ELSE IF acq.ok THEN Ok(RelAcquisition(acq.val))
     ELSE Err("no variant matched", "Relation")

\* #[derive(Deserialize)] on Relation: the unit variants by name first, then
\* the untagged variants in declaration order, Acquisition(AcquisitionKind)
\* and Custom(String).
DeserializeRelation(j) ==
  LET unit == DeserializeUnitEnum(RelationUnit, j)
      acq == DeserializeUnitEnum(AcquisitionKind, j)
  IN IF unit.ok THEN Ok(RelUnit(unit.val))
     ELSE IF acq.ok THEN Ok(RelAcquisition(acq.val))
     ELSE IF j.j = "str" THEN Ok(RelCustom(j.s))
     ELSE Err("no variant matched", "Relation")

\* #[serde(untagged)] Identifier: Url first, then Urn.
DeserializeIdentifier(j) ==
  IF j.j # "str" THEN Err("no variant matched", "Identifier")
  ELSE IF UrlParse(j.s).ok THEN Ok([variant |-> "Url", s |-> UrlParse(j.s).val])
  ELSE IF UrnParse(j.s).ok THEN Ok([variant |-> "Urn", s |-> UrnParse(j.s).val])
  ELSE Err("no variant matched", "Identifier")

\* impl Deserialize for TaggedStrings: a BTreeMap<LangTagBuf, String> read
\* entry by entry (a repeated key keeps its last value), then listed in key
\* order.
DeserializeTaggedStrings(j) ==
  IF j.j # "obj" THEN Err("invalid type", "map")
  ELSE LET es == j.entries
           bad == {p \in DOMAIN es : ~LangTagParse(es[p][1]).ok \/ es[p][2].j # "str"}
           keys == {es[p][1] : p \in DOMAIN es}
           last(k) == CHOOSE p \in DOMAIN es :
                        es[p][1] = k /\ \A q \in DOMAIN es : es[q][1] = k => q <= p
           nth(i) == CHOOSE k \in keys :
                        Cardinality({k2 \in keys : LangTagRank(k2) < LangTagRank(k)}) = i - 1
       IN IF bad # {} THEN Err("invalid value", "TaggedStrings")
          ELSE Ok([i \in 1..Cardinality(keys) |-> <<nth(i), es[last(nth(i))][2].s>>])

\* StringWithAlternates with a one-entry map collapsed to the scalar shape.
DeserializeStringWithAlternatesCollapsing(j) ==
  IF j.j = "str" THEN Ok(Always(j.s))
  ELSE IF DeserializeTaggedStrings(j).ok
       THEN IF Len(DeserializeTaggedStrings(j).val) = 1
            THEN Ok(Always(DeserializeTaggedStrings(j).val[1][2]))
            ELSE Ok(Variants(DeserializeTaggedStrings(j).val))
  ELSE Err("no variant matched", "StringWithAlternates")

\* #[serde(untagged)] StringWithAlternates: Always(Cow<str>) first, then
\* Variants(TaggedStrings).
DeserializeStringWithAlternates(j) ==
  IF j.j = "str" THEN Ok(Always(j.s))
  ELSE IF DeserializeTaggedStrings(j).ok THEN Ok(Variants(DeserializeTaggedStrings(j).val))
  ELSE Err("no variant matched", "StringWithAlternates")

FieldNames(fs) == {fs[i].name : i \in DOMAIN fs}
FieldNamed(fs, n) == CHOOSE i \in DOMAIN fs : fs[i].name = n
KeyIndex(fs, key) ==
  IF \E i \in DOMAIN fs : fs[i].key = key
  THEN CHOOSE i \in DOMAIN fs : fs[i].key = key ELSE 0

RECURSIVE DefaultValue(_)
\* Default::default() of a field's type: an empty Vec, None, false, and for
\* a struct deriving Default the struct of its fields' defaults.
DefaultValue(f) ==
  CASE f.wrap = "Vec" -> <<>>
    [] f.wrap = "Option" -> None
    [] f.wrap = "Plain" /\ f.ty = "bool" -> FALSE
    [] f.wrap = "Plain" /\ f.ty \in StructNames ->
         [n \in FieldNames(Schema(f.ty)) |->
            DefaultValue(Schema(f.ty)[FieldNamed(Schema(f.ty), n)])]

\* missing_field with the title defaulted as well: an absent localized
\* string read as the empty scalar.
missing_field_defaulted(f) ==
  IF f.default THEN Ok(DefaultValue(f))
  ELSE IF f.de = "" /\ f.wrap = "Option" THEN Ok(None)
  ELSE IF f.ty = "StringWithAlternates" THEN Ok(Always(""))
  ELSE Err("missing field", f.key)

\* What the derived visitor does for a key that never came: the default when
\* #[serde(default)] is set, None for an Option, an error otherwise.
missing_field(f) ==
  IF f.default THEN Ok(DefaultValue(f))
  ELSE IF f.de = "" /\ f.wrap = "Option" THEN Ok(None)
  ELSE Err("missing field", f.key)

RECURSIVE Deserialize(_, _)
RECURSIVE DeserializeStruct(_, _)
RECURSIVE DeserializeField(_, _)
RECURSIVE NumlikeObject(_, _)
RECURSIVE StringyObject(_, _)
RECURSIVE FlattenedVec(_, _, _)

\* helpers.rs NumlikeObject<T> (untagged) followed by into_inner: Object(T)
\* first, then Number(usize) through T::from.
NumlikeObject(ty, j) ==
  IF Deserialize(ty, j).ok THEN Deserialize(ty, j)
  ELSE IF Deserialize("usize", j).ok THEN Ok(FromUsize(ty, Deserialize("usize", j).val))
  ELSE Err("no variant matched", "NumlikeObject")

\* helpers.rs StringyObject<T> (untagged) followed by into_inner: Object(T)
\* first, then String(Cow<str>) through T::from.
StringyObject(ty, j) ==
  IF Deserialize(ty, j).ok THEN Deserialize(ty, j)
  ELSE IF j.j = "str" THEN Ok(FromCowStr(ty, j.s))
  ELSE Err("no variant matched", "StringyObject")

\* One element of a FlattenedVec: T itself, NumlikeObject<T> or StringyObject<T>.
Element(inner, ty, j) ==
  CASE inner = "numlike" -> NumlikeObject(ty, j)
    [] inner = "stringy" -> StringyObject(ty, j)
    [] OTHER -> Deserialize(ty, j)

\* helpers.rs FlattenedVec<T> (untagged): Vec(Vec<T>) first, every element of
\* the sequence read as T; then Singleton(T), the whole value read as one T.
FlattenedVec(inner, ty, j) ==
  LET rs == [i \in DOMAIN j.items |-> Element(inner, ty, j.items[i])] IN
  IF j.j = "seq" /\ AllOk(rs) THEN Ok([variant |-> "Vec", vs |-> Vals(rs)])
  ELSE IF Element(inner, ty, j).ok
       THEN Ok([variant |-> "Singleton", t |-> Element(inner, ty, j).val])
  ELSE Err("no variant matched", "FlattenedVec")

deserialize_flattened_vec(ty, j) ==
  LET r == FlattenedVec("", ty, j) IN
  IF ~r.ok THEN r
  ELSE IF r.val.variant = "Singleton" THEN Ok(<<r.val.t>>) ELSE Ok(r.val.vs)

deserialize_flattened_vec_numlike(ty, j) ==
  LET r == FlattenedVec("numlike", ty, j) IN
  IF ~r.ok THEN r
  ELSE IF r.val.variant = "Singleton" THEN Ok(<<r.val.t>>) ELSE Ok(r.val.vs)

\* The stringy field read without the StringyObject wrapper: a bare string
\* is no element.
deserialize_flattened_vec_unwrapped(ty, j) ==
  LET r == FlattenedVec("", ty, j) IN
  IF ~r.ok THEN r
  ELSE IF r.val.variant = "Singleton" THEN Ok(<<r.val.t>>) ELSE Ok(r.val.vs)

deserialize_flattened_vec_stringy(ty, j) ==
  LET r == FlattenedVec("stringy", ty, j) IN
  IF ~r.ok THEN r
  ELSE IF r.val.variant = "Singleton" THEN Ok(<<r.val.t>>) ELSE Ok(r.val.vs)

\* DeserializeField with every Vec<T> read through deserialize_flattened_vec.
DeserializeFieldFlattening(f, j) ==
  CASE f.de = "deserialize_flattened_vec_numlike" -> deserialize_flattened_vec_numlike(f.ty, j)
    [] f.de = "deserialize_flattened_vec_stringy" -> deserialize_flattened_vec_stringy(f.ty, j)
    [] f.de \in {"", "deserialize_flattened_vec"} /\ f.wrap = "Vec" ->
         deserialize_flattened_vec(f.ty, j)
    [] f.de = "" /\ f.wrap = "Option" ->
         IF j = JNull THEN Ok(None)
         ELSE IF Deserialize(f.ty, j).ok THEN Ok(Some(Deserialize(f.ty, j).val))
         ELSE Deserialize(f.ty, j)
    [] f.de = "" /\ f.wrap = "Plain" -> Deserialize(f.ty, j)

\* One field's value from the JSON value under its key: through the
\* deserialize_with function when the field names one, else Option<T>
\* (null is None), Vec<T> (a sequence only) or T.
DeserializeField(f, j) ==
  CASE f.de = "deserialize_flattened_vec" -> deserialize_flattened_vec(f.ty, j)
    [] f.de = "deserialize_flattened_vec_numlike" -> deserialize_flattened_vec_numlike(f.ty, j)
    [] f.de = "deserialize_flattened_vec_stringy" -> deserialize_flattened_vec_stringy(f.ty, j)
    [] f.de = "" /\ f.wrap = "Option" ->
         IF j = JNull THEN Ok(None)
         ELSE IF Deserialize(f.ty, j).ok THEN Ok(Some(Deserialize(f.ty, j).val))
         ELSE Deserialize(f.ty, j)
    [] f.de = "" /\ f.wrap = "Vec" ->
         IF j.j # "seq" THEN Err("invalid type", f.key)
         ELSE LET rs == [i \in DOMAIN j.items |-> Deserialize(f.ty, j.items[i])] IN
              IF AllOk(rs) THEN Ok(Vals(rs)) ELSE FirstErr(rs)
    [] f.de = "" /\ f.wrap = "Plain" -> Deserialize(f.ty, j)

\* #[derive(Deserialize)] on a struct.  From an object (visit_map): the
\* entries in document order, an unknown key ignored, a repeated key an
\* error, then the fields that never came.  From a sequence (visit_seq): the
\* fields by position, a missing tail filled from #[serde(default)] only.
DeserializeStruct(ty, j) ==
  LET fs == Schema(ty) IN
  IF j.j = "obj" THEN
    LET es == j.entries
        er == [p \in DOMAIN es |->
                 LET i == KeyIndex(fs, es[p][1]) IN
                 IF i = 0 THEN Ok(JNull)
                 ELSE IF \E q \in 1..(p - 1) : es[q][1] = es[p][1]
                      THEN Err("duplicate field", es[p][1])
                 ELSE DeserializeField(fs[i], es[p][2])]
        fr == [i \in DOMAIN fs |->
                 IF \E p \in DOMAIN es : es[p][1] = fs[i].key
                 THEN er[CHOOSE p \in DOMAIN es : es[p][1] = fs[i].key
                                   /\ \A q \in 1..(p - 1) : es[q][1] # fs[i].key]
                 ELSE missing_field(fs[i])]
    IN IF ~AllOk(er) THEN FirstErr(er)
       ELSE IF ~AllOk(fr) THEN FirstErr(fr)
       ELSE Ok([n \in FieldNames(fs) |-> fr[FieldNamed(fs, n)].val])
  ELSE IF j.j = "seq" THEN
    LET fr == [i \in DOMAIN fs |->
                 IF i <= Len(j.items) THEN DeserializeField(fs[i], j.items[i])
                 ELSE IF fs[i].default THEN Ok(DefaultValue(fs[i]))
                 ELSE Err("invalid length", ty)]
    IN IF ~AllOk(fr) THEN FirstErr(fr)
       ELSE IF Len(j.items) > Len(fs) THEN Err("invalid length", ty)
       ELSE Ok([n \in FieldNames(fs) |-> fr[FieldNamed(fs, n)].val])
  ELSE Err("invalid type", ty)

\* Floating-point values: finite m * 10^x, or infinite.
Finite(m, x) == [class |-> "finite", m |-> m, x |-> x]
Infinite == [class |-> "infinite", m |-> 0, x |-> 0]

\* f64::MAX is 1.7976931348623157e308 and f32::MAX is 3.4028235e38: the
\* largest one-digit m * 10^x each type holds.
F64Max == Finite(1, 308)
F32Max == Finite(3, 38)
Exceeds(m, x, max) == x > max.x \/ (x = max.x /\ m > max.m)

\* serde_json reads every number with an exponent as an f64 and fails with
\* "number out of range" beyond f64; the f32 visitor then casts with `as`,
\* which gives infinity beyond f32::MAX.
DeserializeFloat(ty, j) ==
  IF j.j = "num" THEN Ok(Finite(j.n, 0))
  ELSE IF j.j # "exp" THEN Err("invalid type", ty)
  ELSE IF Exceeds(j.m, j.x, F64Max) THEN Err("number out of range", "")
  ELSE IF ty = "f32" /\ Exceeds(j.m, j.x, F32Max) THEN Ok(Infinite)
  ELSE Ok(Finite(j.m, j.x))

\* T::deserialize for every type of the tree.
Deserialize(ty, j) ==
  CASE ty = "String" -> IF j.j = "str" THEN Ok(j.s) ELSE Err("invalid type", ty)
    [] ty = "usize" -> IF j.j = "num" /\ j.n >= 0 THEN Ok(j.n) ELSE Err("invalid type", ty)
    [] ty \in {"f32", "f64"} -> DeserializeFloat(ty, j)
    [] ty = "bool" -> IF j.j = "bool" THEN Ok(j.b) ELSE Err("invalid type", ty)
    [] ty = "Url" -> IF j.j = "str" THEN UrlParse(j.s) ELSE Err("invalid type", ty)
    [] ty = "LangTag" -> IF j.j = "str" THEN LangTagParse(j.s) ELSE Err("invalid type", ty)
    [] ty = "Identifier" -> DeserializeIdentifier(j)
    [] ty = "Relation" -> DeserializeRelation(j)
    [] ty = "StringWithAlternates" -> DeserializeStringWithAlternates(j)
    [] ty \in UnitEnumNames -> DeserializeUnitEnum(UnitEnum(ty), j)
    [] ty \in StructNames -> DeserializeStruct(ty, j)

(***************************************************************************)
(* Serialize                                                               *)
(***************************************************************************)
\* The serialized name of a unit variant.
NameOf(variants, v) == variants[CHOOSE i \in DOMAIN variants : variants[i][1] = v][2]

\* LinkProperties::is_empty
is_empty(self) ==
  /\ self.count = None
  /\ self.price = None
  /\ self.page = None
  /\ Len(self.indirect_acquisition) = 0
  /\ self.holds = None
  /\ self.copies = None
  /\ self.availability = None

\* Whether the field's skip_serializing_if predicate drops it.
skip_serializing_if(f, v) ==
  CASE f.skip = "Option::is_none" -> v = None
    [] f.skip = "Vec::is_empty" -> Len(v) = 0
    [] f.skip = "std::ops::Not::not" -> ~v
    [] f.skip = "LinkProperties::is_empty" -> is_empty(v)
    [] f.skip = "" -> FALSE

\* impl Serialize for TaggedStrings: one map entry per choice, in the stored
\* order.
SerializeTaggedStrings(choices) ==
  JObj([i \in DOMAIN choices |-> <<choices[i][1], JStr(choices[i][2])>>])

RECURSIVE Serialize(_, _)
RECURSIVE SerializeStruct(_, _)
RECURSIVE SerializeField(_, _)
RECURSIVE serialize_flattened_vec(_, _)

\* serialize_flattened_vec without the one-element case: always the sequence.
serialize_flattened_vec_sequence(ty, input) ==
  JSeq([i \in DOMAIN input |-> Serialize(ty, input[i])])

\* helpers.rs serialize_flattened_vec: the bare element of a one-element
\* list, the sequence otherwise.
serialize_flattened_vec(ty, input) ==
  IF Len(input) = 1 THEN Serialize(ty, input[1])
  ELSE JSeq([i \in DOMAIN input |-> Serialize(ty, input[i])])

\* One field's JSON value: through the serialize_with function when the
\* field names one, else Option<T> (None is null), Vec<T> (a sequence) or T.
SerializeField(f, v) ==
  CASE f.ser = "serialize_flattened_vec" -> serialize_flattened_vec(f.ty, v)
    [] f.ser = "" /\ f.wrap = "Option" ->
         IF v = None THEN JNull ELSE Serialize(f.ty, v.val)
    [] f.ser = "" /\ f.wrap = "Vec" -> JSeq([i \in DOMAIN v |-> Serialize(f.ty, v[i])])
    [] f.ser = "" /\ f.wrap = "Plain" -> Serialize(f.ty, v)

\* A struct encoder mirroring the number shorthand: an entity of which only
\* the position is kept is written as the bare number.
SerializeStructShorthand(ty, v) ==
  LET fs == Schema(ty)
      kept == {i \in DOMAIN fs : ~skip_serializing_if(fs[i], v[fs[i].name])}
      nth(k) == CHOOSE i \in kept : Cardinality({m \in kept : m < i}) = k - 1
  IN IF Cardinality(kept) = 1 /\ fs[nth(1)].name = "position" /\ fs[nth(1)].wrap = "Plain"
     THEN JNum(v.position)
     ELSE JObj([k \in 1..Cardinality(kept) |->
                  <<fs[nth(k)].key, SerializeField(fs[nth(k)], v[fs[nth(k)].name])>>])

\* #[derive(Serialize)] on a struct: an object of the fields in declaration
\* order, without those skip_serializing_if drops.
SerializeStruct(ty, v) ==
  LET fs == Schema(ty)
      kept == {i \in DOMAIN fs : ~skip_serializing_if(fs[i], v[fs[i].name])}
      nth(k) == CHOOSE i \in kept : Cardinality({m \in kept : m < i}) = k - 1
  IN JObj([k \in 1..Cardinality(kept) |->
             <<fs[nth(k)].key, SerializeField(fs[nth(k)], v[fs[nth(k)].name])>>])

\* #[derive(Serialize)] on Relation: a unit variant is its name, an untagged
\* variant is its payload.
SerializeRelation(v) ==
  CASE v.variant = "Acquisition" -> JStr(NameOf(AcquisitionKind, v.kind))
    [] v.variant = "Custom" -> JStr(v.s)
    [] OTHER -> JStr(NameOf(RelationUnit, v.variant))

\* serde_json's serialize_f32 / serialize_f64: null for a value that is not
\* finite, the number otherwise.
SerializeFloat(v) ==
  IF v.class = "infinite" THEN JNull
  ELSE IF v.x = 0 THEN JNum(v.m)
  ELSE JExp(v.m, v.x)

\* T::serialize for every type of the tree.
Serialize(ty, v) ==
  CASE ty \in {"String", "Url", "LangTag"} -> JStr(v)
    [] ty = "usize" -> JNum(v)
    [] ty \in {"f32", "f64"} -> SerializeFloat(v)
    [] ty = "bool" -> JBool(v)
    [] ty = "Identifier" -> JStr(v.s)
    [] ty = "Relation" -> SerializeRelation(v)
    [] ty = "StringWithAlternates" ->
         IF v.variant = "Always" THEN JStr(v.s) ELSE SerializeTaggedStrings(v.choices)
    [] ty \in UnitEnumNames -> JStr(NameOf(UnitEnum(ty), v))
    [] ty \in StructNames -> SerializeStruct(ty, v)

(***************************************************************************)
(* The documents and trees the operations are applied to.                  *)
(***************************************************************************)
SeqsUpTo(S, n) == UNION {[1..k -> S] : k \in 0..n}

\* The value under a key of a JSON object (its first entry of that key).
Has(j, key) == j.j = "obj" /\ \E p \in DOMAIN j.entries : j.entries[p][1] = key
Get(j, key) ==
  j.entries[CHOOSE p \in DOMAIN j.entries :
              j.entries[p][1] = key /\ \A q \in 1..(p - 1) : j.entries[q][1] # key][2]

\* Relation strings: the names the code declares, and strings near them.
RelationStrings ==
  {"self", "alternate", "contents", "cover", "manifest", "profile", "first",
   "previous", "next", "last", "current", "search", "subsection",
   "http://opds-spec.org/sort/new", "http://opds-spec.org/sort/popular",
   "http://opds-spec.org/acquisition",
   "http://opds-spec.org/acquisition/open-access",
   "http://opds-spec.org/acquisition/buy",
   "http://opds-spec.org/acquisition/sample",
   "http://opds-spec.org/acquisition/subscribe",
   "http://opds-spec.org/acquisition/preview", "preview",
   "Self", "SELF", "Alternate", "Preview", "myself", "sortnew", "sort/new",
   "http://opds-spec.org/acquisition/borrow",
   "HTTP://OPDS-SPEC.ORG/ACQUISITION/BUY", "related", ""}

RelationDocs == {JStr(s) : s \in RelationStrings} \cup {JNum(1), JNull, JSeq(<<JStr("self")>>)}

LinkRelStrings ==
  {"self", "alternate", "http://opds-spec.org/acquisition/buy",
   "http://opds-spec.org/acquisition/sample", "x-custom"}
LinkRelShapes ==
  {JStr(s) : s \in LinkRelStrings}
    \cup {JSeq(q) : q \in SeqsUpTo({JStr(s) : s \in LinkRelStrings}, MaxLen)}
LinkDocs ==
  {JObj(<< <<"href", JStr("/a")>> >>),
   JObj(<< <<"href", JStr("/a")>>, <<"templated", JBool(FALSE)>> >>),
   JObj(<< <<"href", JStr("/search{?q}")>>, <<"templated", JBool(TRUE)>> >>)}
    \cup {JObj(<< <<"href", JStr("/a")>>, <<"rel", r>> >>) : r \in LinkRelShapes}

\* A field of shorthand entities: a bare element or a sequence of elements.
Shapes(elems) == elems \cup {JSeq(q) : q \in SeqsUpTo(elems, MaxLen)}

NumlikeKeys == {"chapter", "episode", "issue", "season", "storyArc", "volume"}
NumlikeElems ==
  {JNum(n) : n \in 0..MaxPos}
    \cup {JObj(<< <<"position", JNum(MaxPos)>>, <<"name", JStr("Finale")>> >>)}
\* Values of shapes other than a number, an object, or a sequence of them.
NumlikeBadShapes ==
  {JStr("three"), JBool(TRUE), JSeq(<<JSeq(<<JNum(1)>>)>>),
   JSeq(<<JSeq(<<JNull, JNull, JNull, JSeq(<< >>), JNum(1)>>)>>)}
ContainsDocs ==
  {JObj(<< <<k, v>> >>) : k \in NumlikeKeys, v \in Shapes(NumlikeElems)}
    \cup {JObj(<< <<"season", v>> >>) : v \in NumlikeBadShapes}

StringyKeys == {"collection", "journal", "magazine", "newspaper", "periodical", "series"}
StringyElems ==
  {JStr("Fiction"), JObj(<< <<"name", JStr("Drama")>>, <<"position", JNum(2)>> >>)}
\* Values of shapes other than a string, an object, or a sequence of them.
StringyBadShapes ==
  {JNum(1), JBool(FALSE), JSeq(<<JSeq(<<JStr("Fiction")>>)>>),
   JSeq(<<JSeq(<<JStr("Fiction"), JNull, JNull, JSeq(<< >>), JNull>>)>>)}
\* A sequence lining up with the fields of Collection: name, sortAs,
\* identifier, altIdentifier, position.
PositionalCollection == JSeq(<<JStr("Fiction"), JNull, JNull, JSeq(<< >>), JNull>>)
BelongsToDocs ==
  {JObj(<< <<k, v>> >>) : k \in StringyKeys, v \in Shapes(StringyElems)}
    \cup {JObj(<< <<"collection", v>> >>) : v \in StringyBadShapes}
    \cup {JObj(<< <<"collection", PositionalCollection>> >>)}

ContributorElems ==
  {JStr("Ann"), JObj(<< <<"name", JStr("Bob")>>, <<"role", JSeq(<<JStr("aut")>>)>> >>)}
AltIdentifierShapes ==
  {JStr("x"), JObj(<< <<"value", JStr("x")>> >>), JSeq(<<JStr("x"), JStr("y")>>),
   JSeq(<<JStr("x"), JStr("x")>>), JSeq(<<JStr("x"), JNull>>),
   JSeq(<<JObj(<< <<"value", JStr("x")>>, <<"scheme", JStr("http://a.org/")>> >>)>>)}
LanguageShapes == {JStr("en"), JSeq(<<JStr("en")>>), JSeq(<<JStr("fr"), JStr("en")>>)}
PublicationMetadataDocs ==
  {JObj(<< <<"title", JStr("Dune")>> >>)}
    \cup {JObj(<< <<"title", JStr("Dune")>>, <<k, v>> >>) :
            k \in {"author", "translator"}, v \in Shapes(ContributorElems)}
    \cup {JObj(<< <<"title", JStr("Dune")>>, <<"altIdentifier", v>> >>) :
            v \in AltIdentifierShapes}
    \cup {JObj(<< <<"title", JStr("Dune")>>, <<"language", v>> >>) : v \in LanguageShapes}

PublicationDoc ==
  JObj(<< <<"metadata", JObj(<< <<"title", JStr("Dune")>>, <<"author", JStr("Ann")>> >>)>>,
          <<"links", JSeq(<<JObj(<< <<"href", JStr("/dune.epub")>>,
                                     <<"rel", JStr("http://opds-spec.org/acquisition/buy")>> >>)>>)>> >>)

\* Feed documents with a metadata object that has no title: the feed's own,
\* a group's, a facet's, a publication's, a publication's inside a group.
Titled == JObj(<< <<"title", JStr("Catalog")>> >>)
Untitled == JObj(<< <<"modified", JStr("2024-01-01")>> >>)
NoLinks == JSeq(<< >>)
FeedWith(key, item) == JObj(<< <<"metadata", Titled>>, <<key, JSeq(<<item>>)>> >>)
UntitledFeedDocs ==
  {JObj(<< <<"metadata", Untitled>> >>),
   JObj(<< <<"links", NoLinks>>, <<"metadata", Untitled>> >>),
   FeedWith("groups", JObj(<< <<"metadata", Untitled>> >>)),
   FeedWith("facets", JObj(<< <<"metadata", Untitled>>, <<"links", NoLinks>> >>)),
   FeedWith("facets", JObj(<< <<"links", NoLinks>>, <<"metadata", Untitled>> >>)),
   FeedWith("publications", JObj(<< <<"metadata", Untitled>>, <<"links", NoLinks>> >>)),
   FeedWith("groups", JObj(<< <<"metadata", Titled>>,
                              <<"publications",
                                JSeq(<<JObj(<< <<"metadata", Untitled>>, <<"links", NoLinks>> >>)>>)>> >>)),
   FeedWith("groups", JObj(<< <<"metadata", Titled>> >>)),
   FeedWith("facets", JObj(<< <<"metadata", Titled>>, <<"links", NoLinks>> >>))}

\* Feed documents holding one value of a closed enumeration: the layout, the
\* reading progression and the accessibility fields of a publication's
\* metadata, and the availability state of a link.
EnumKeys ==
  {"layout", "readingProgression", "state", "accessMode", "feature", "hazard", "exemption"}
EnumStrings ==
  {"fixed", "rtl", "available", "textual", "index", "sound", "eaa-microenterprise",
   "bogus", "Fixed", ""}
StateLink(v) ==
  JObj(<< <<"href", JStr("/a")>>,
          <<"properties",
            JObj(<< <<"availability", JObj(<< <<"state", JStr(v)>> >>)>> >>)>> >>)
PublicationWith(entry) ==
  FeedWith("publications",
           JObj(<< <<"metadata", JObj(<< <<"title", JStr("Dune")>>, entry >>)>>,
                   <<"links", NoLinks>> >>))
EnumDoc(k, v) ==
  CASE k \in {"layout", "readingProgression"} -> PublicationWith(<<k, JStr(v)>>)
    [] k = "exemption" ->
         PublicationWith(<<"accessibility", JObj(<< <<k, JStr(v)>> >>)>>)
    [] k \in {"accessMode", "feature", "hazard"} ->
         PublicationWith(<<"accessibility", JObj(<< <<k, JSeq(<<JStr(v)>>)>> >>)>>)
    [] k = "state" -> FeedWith("links", StateLink(v))
\* The availability state of a link of a collection the publication belongs
\* to: an enumeration value below a String-or-Object element.
NestedStateDoc(v) ==
  PublicationWith(<<"belongsTo",
                    JObj(<< <<"collection",
                              JObj(<< <<"name", JStr("Fiction")>>,
                                      <<"links", JSeq(<<StateLink(v)>>)>> >>)>> >>)>>)
EnumFeedDocs ==
  {EnumDoc(k, v) : k \in EnumKeys, v \in EnumStrings}
    \cup {NestedStateDoc(v) : v \in EnumStrings}

\* Feed documents with one malformed value below the top: a language tag of
\* a publication and of a link, a URL identifier of a publication, and a
\* URL/URN identifier of a collection the publication belongs to.
MalformedFeedDocs ==
  {PublicationWith(<<"language", JStr("not a tag")>>),
   FeedWith("links", JObj(<< <<"href", JStr("/a")>>,
                             <<"language", JSeq(<<JStr("not a tag")>>)>> >>)),
   PublicationWith(<<"identifier", JStr("not a url")>>),
   PublicationWith(<<"belongsTo",
                     JObj(<< <<"collection",
                               JObj(<< <<"name", JStr("Fiction")>>,
                                       <<"identifier", JStr("not a url")>> >>)>> >>)>>)}

\* Feed documents in which a facet, a publication, or a publication of a
\* group has no links key.
LinklessFeedDocs ==
  {FeedWith("facets", JObj(<< <<"metadata", Titled>> >>)),
   FeedWith("publications", JObj(<< <<"metadata", JObj(<< <<"title", JStr("Dune")>> >>)>> >>)),
   FeedWith("groups", JObj(<< <<"metadata", Titled>>,
                              <<"publications",
                                JSeq(<<JObj(<< <<"metadata", JObj(<< <<"title", JStr("Dune")>> >>)>> >>)>>)>> >>))}

BaseFeedDocs ==
  {JObj(<< <<"metadata", JObj(<< <<"title", JStr("Catalog")>> >>)>> >>),
   JObj(<< <<"metadata", JObj(<< <<"title", JStr("Catalog")>> >>)>>,
           <<"links", JSeq(<<JObj(<< <<"href", JStr("/a")>>, <<"rel", JStr("self")>> >>)>>)>> >>),
   JObj(<< <<"metadata", JObj(<< <<"title", JStr("Catalog")>> >>)>>,
           <<"publications", JSeq(<<PublicationDoc>>)>> >>)}

FeedDocs ==
  BaseFeedDocs \cup UntitledFeedDocs \cup EnumFeedDocs \cup MalformedFeedDocs
    \cup LinklessFeedDocs

\* Localized strings: a scalar, or a map from language tags to strings.
TaggedPairs == {<<"de", "Autoren">>, <<"en", "Authors">>, <<"en", "Writers">>, <<"fr", "Auteurs">>}
StringWithAlternatesDocs ==
  {JStr("Authors"), JNum(1), JNull, JSeq(<<JStr("Authors")>>),
   JObj(<< <<"not a tag", JStr("Authors")>> >>), JObj(<< <<"en", JNum(1)>> >>)}
    \cup {JObj([i \in DOMAIN q |-> <<q[i][1], JStr(q[i][2])>>]) : q \in SeqsUpTo(TaggedPairs, MaxLen)}

\* The list fields tried with a bare element and with the one-element
\* sequence: those declared without deserialize_with, and the two plain
\* lists declared with deserialize_flattened_vec.
SequenceOnlyFields ==
  {"Link.language", "Link.alternate", "Link.children", "Contributor.role",
   "PublicationMetadata.subject", "PublicationMetadata.conformsTo", "Feed.links",
   "Feed.navigation", "Feed.publications", "Feed.facets", "Feed.groups",
   "Publication.images"}
ShorthandListFields == {"PublicationMetadata.language", "AccessibilityMetadata.conformsTo"}
ListFields == SequenceOnlyFields \cup ShorthandListFields

\* The type the document of a list field is parsed as.
ListFieldType(c) ==
  CASE c \in {"Link.language", "Link.alternate", "Link.children"} -> "Link"
    [] c = "Contributor.role" -> "Contributor"
    [] c \in {"PublicationMetadata.subject", "PublicationMetadata.conformsTo",
              "PublicationMetadata.language", "AccessibilityMetadata.conformsTo"} ->
         "PublicationMetadata"
    [] OTHER -> "Feed"

\* One element of a list field.
ListFieldElem(c) ==
  CASE c \in {"Link.language", "PublicationMetadata.language"} -> JStr("en")
    [] c \in {"Link.alternate", "Link.children", "Feed.links", "Feed.navigation",
              "Publication.images"} -> JObj(<< <<"href", JStr("/a")>> >>)
    [] c = "Contributor.role" -> JStr("aut")
    [] c = "PublicationMetadata.subject" -> JObj(<< <<"name", JStr("SF")>> >>)
    [] c \in {"PublicationMetadata.conformsTo", "AccessibilityMetadata.conformsTo"} ->
         JStr("http://a.org/")
    [] c = "Feed.publications" -> PublicationDoc
    [] c \in {"Feed.facets", "Feed.groups"} ->
         JObj(<< <<"metadata", Titled>>, <<"links", NoLinks>> >>)

\* The document whose list field c holds v.
ListFieldDoc(c, v) ==
  CASE c = "Link.language" -> JObj(<< <<"href", JStr("/a")>>, <<"language", v>> >>)
    [] c = "Link.alternate" -> JObj(<< <<"href", JStr("/a")>>, <<"alternate", v>> >>)
    [] c = "Link.children" -> JObj(<< <<"href", JStr("/a")>>, <<"children", v>> >>)
    [] c = "Contributor.role" -> JObj(<< <<"name", JStr("Ann")>>, <<"role", v>> >>)
    [] c = "PublicationMetadata.subject" ->
         JObj(<< <<"title", JStr("Dune")>>, <<"subject", v>> >>)
    [] c = "PublicationMetadata.conformsTo" ->
         JObj(<< <<"title", JStr("Dune")>>, <<"conformsTo", v>> >>)
    [] c = "PublicationMetadata.language" ->
         JObj(<< <<"title", JStr("Dune")>>, <<"language", v>> >>)
    [] c = "AccessibilityMetadata.conformsTo" ->
         JObj(<< <<"title", JStr("Dune")>>,
                 <<"accessibility", JObj(<< <<"conformsTo", v>> >>)>> >>)
    [] c = "Feed.links" -> JObj(<< <<"metadata", Titled>>, <<"links", v>> >>)
    [] c = "Feed.navigation" -> JObj(<< <<"metadata", Titled>>, <<"navigation", v>> >>)
    [] c = "Feed.publications" -> JObj(<< <<"metadata", Titled>>, <<"publications", v>> >>)
    [] c = "Feed.facets" -> JObj(<< <<"metadata", Titled>>, <<"facets", v>> >>)
    [] c = "Feed.groups" -> JObj(<< <<"metadata", Titled>>, <<"groups", v>> >>)
    [] c = "Publication.images" ->
         FeedWith("publications",
                  JObj(<< <<"metadata", JObj(<< <<"title", JStr("Dune")>> >>)>>,
                          <<"links", NoLinks>>, <<"images", v>> >>))

ListFieldDocs(t) ==
  {ListFieldDoc(c, v) : c \in {k \in ListFields : ListFieldType(k) = t},
                        v \in {JNull, JSeq(<< >>)}}
    \cup UNION {{ListFieldDoc(c, ListFieldElem(c)), ListFieldDoc(c, JSeq(<<ListFieldElem(c)>>))} :
                  c \in {k \in ListFields : ListFieldType(k) = t}}

\* Prices: the value a plain number, a number with an exponent within f32,
\* beyond f32 and beyond f64, or no number.
PriceValues == {JNum(5), JExp(1, 10), JExp(1, 39), JExp(1, 400), JStr("5")}
PriceDocs ==
  {JObj(<< <<"value", v>>, <<"currency", JStr("USD")>> >>) : v \in PriceValues}
    \cup {JObj(<< <<"value", JNum(5)>> >>)}

\* The types serde_json::from_str / to_string are applied to.
Types ==
  {"Relation", "StringWithAlternates", "Link", "Contains", "BelongsTo",
   "PublicationMetadata", "Feed", "Price", "Contributor"}

Docs(t) ==
  CASE t = "Relation" -> RelationDocs
    [] t = "StringWithAlternates" -> StringWithAlternatesDocs
    [] t = "Link" -> LinkDocs \cup ListFieldDocs(t)
    [] t = "Contains" -> ContainsDocs
    [] t = "BelongsTo" -> BelongsToDocs
    [] t = "PublicationMetadata" -> PublicationMetadataDocs \cup ListFieldDocs(t)
    [] t = "Feed" -> FeedDocs \cup ListFieldDocs(t)
    [] t = "Price" -> PriceDocs
    [] t = "Contributor" -> ListFieldDocs(t)

\* Trees built without parsing: Relation values, of which Custom(s) for any
\* string s through From<String>; localized strings, of which the maps
\* TaggedStrings::from_static makes of any static slice; and links built by
\* Link::new or Link::template whose public rel field is then set.
RelationValues ==
  {RelUnit("Myself"), RelUnit("Alternate"), RelAcquisition("Buy"), RelAcquisition("Sample"),
   RelationFromString("x-custom"), RelationFromString("self")}
StringWithAlternatesValues ==
  {FromCowStr("StringWithAlternates", "Authors")}
    \cup {Variants(from_static(q)) : q \in SeqsUpTo(TaggedPairs, MaxLen)}
LinkValues ==
  {[LinkNew("/a", None) EXCEPT !.rel = q] : q \in SeqsUpTo(RelationValues, MaxLen)}
    \cup {LinkNew("/search{?q}", Some("application/opds+json")),
          LinkTemplate("/search{?q}", Some("application/opds+json"))}

Values(t) ==
  CASE t = "Relation" -> RelationValues
    [] t = "StringWithAlternates" -> StringWithAlternatesValues
    [] t = "Link" -> LinkValues
    [] OTHER -> {}

\* The arguments of the Feed builders.
FeedTitles == {Always("Catalog")}
FeedLinks ==
  {[LinkNew("/a", None) EXCEPT !.rel = <<RelUnit("Myself")>>],
   [LinkNew("/b", None) EXCEPT !.rel = <<RelationFromString("self")>>],
   LinkTemplate("/search{?q}", None)}
FeedFacets == {FacetNew(Always("Languages"))}
FeedGroups == {FeedGroupNew(Always("New"))}
FeedPublications == {Deserialize("Publication", PublicationDoc).val}


\* serde_json::from_str reads through a Deserializer whose remaining_depth
\* starts at 128 (serde_json's default recursion limit; the code never calls
\* disable_recursion_limit).
RecursionLimit == 128
RecursionLimitExceeded == Err("recursion limit exceeded", "")

\* JSON text, token by token: the brackets, the keys and the scalars.
ObjOpen == [t |-> "{"]
ObjClose == [t |-> "}"]
SeqOpen == [t |-> "["]
SeqClose == [t |-> "]"]
Key(k) == [t |-> "key", k |-> k]
Tok(j) == [t |-> "scalar", j |-> j]
Repeat(pat, n) == [i \in 1..(n * Len(pat)) |-> pat[((i - 1) % Len(pat)) + 1]]

\* Longest chain of nested values the enumerated texts hold, and the chain
\* lengths used: the shortest ones and the ones around the limit.
MaxNest == 66
NestSizes == {n \in 0..MaxNest : n <= 1 \/ n >= MaxNest - 4}

\* A link holding a link under key ("children", "alternate"), n times.
LinkText == <<ObjOpen, Key("href"), Tok(JStr("/a")), ObjClose>>
LinkChain(key, n) ==
  Repeat(<<ObjOpen, Key("href"), Tok(JStr("/a")), Key(key), SeqOpen>>, n)
    \o LinkText \o Repeat(<<SeqClose, ObjClose>>, n)

\* An acquisition object holding one under "child", n times, down to leaf.
AcquisitionLeaves ==
  {<<ObjOpen, Key("type"), Tok(JStr("application/pdf")), ObjClose>>, <<ObjOpen, ObjClose>>}
AcquisitionChain(leaf, n) ==
  Repeat(<<ObjOpen, Key("type"), Tok(JStr("application/pdf")), Key("child"), SeqOpen>>, n)
    \o leaf \o Repeat(<<SeqClose, ObjClose>>, n)

\* Contains with a chapter of a series of a chapter ..., n times, down to
\* leaf: a chapter, or a chapter of a series.
EntityLeaves ==
  {<<ObjOpen, Key("position"), Tok(JNum(1)), ObjClose>>,
   <<ObjOpen, Key("position"), Tok(JNum(1)), Key("series"),
     ObjOpen, Key("name"), Tok(JStr("Saga")), ObjClose, ObjClose>>}
EntityChain(leaf, n) ==
  <<ObjOpen, Key("chapter")>>
    \o Repeat(<<ObjOpen, Key("position"), Tok(JNum(1)), Key("series"),
                ObjOpen, Key("name"), Tok(JStr("Saga")), Key("chapter")>>, n)
    \o leaf \o Repeat(<<ObjClose, ObjClose>>, n) \o <<ObjClose>>

\* Texts nested through declared fields only.
DeclaredChainDocs(t) ==
  CASE t = "Link" -> {LinkChain(key, n) : key \in {"children", "alternate"}, n \in NestSizes}
    [] t = "Acquisition" -> {AcquisitionChain(leaf, n) : leaf \in AcquisitionLeaves, n \in NestSizes}
    [] t = "Contains" -> {EntityChain(leaf, n) : leaf \in EntityLeaves, n \in NestSizes}
\* Links holding a chain under a key Link does not declare.
UndeclaredChainDocs ==
  {<<ObjOpen, Key("href"), Tok(JStr("/a")), Key("x-extra")>>
     \o LinkChain("children", n) \o <<ObjClose>> : n \in NestSizes}

ChainTypes == {"Link", "Acquisition", "Contains"}
ChainDocs(t) == DeclaredChainDocs(t) \cup (IF t = "Link" THEN UndeclaredChainDocs ELSE {})
(***************************************************************************)
(* The state machine: a value of type ty is parsed from the document src   *)
(* (serde_json::from_str) or built through the public constructors, then   *)
(* encoded to out (serde_json::to_string), and out is parsed again to      *)
(* back.  acq holds the answer of Link::get_acquisition once it is asked.  *)
(* rest, stack and remaining_depth are the state of the text reader while  *)
(* a parse is followed token by token (the specification Descent below).   *)
(* calls holds the from_str / to_string calls of concurrent callers and    *)
(* labels the label constants of StringWithAlternates (the specification   *)
(* Calls); file, stdout, stderr and exit belong to a run of the validate   *)
(* example (the specification Cli).                                        *)
(***************************************************************************)
VARIABLES ty, src, tree, out, back, acq, pc, rest, stack, remaining_depth,
          calls, labels, file, stdout, stderr, exit

reader == <<rest, stack, remaining_depth>>
others == <<calls, labels, file, stdout, stderr, exit>>
vars ==
  <<ty, src, tree, out, back, acq, pc, rest, stack, remaining_depth,
    calls, labels, file, stdout, stderr, exit>>

NoDoc == [j |-> "none"]
NoResult == Err("none", "")
Unasked == [asked |-> FALSE]

\* The callers of the library, and a caller that is in no call.
Threads == {1, 2}
Idle ==
  [ty |-> "", src |-> NoDoc, rest |-> << >>, stack |-> << >>,
   remaining_depth |-> RecursionLimit, tree |-> NoResult, pc |-> "idle"]

\* StringWithAlternates::AUTHORS and ::FILE_FORMATS, two of the label
\* constants.
Labels ==
  [AUTHORS |-> Variants(from_static(<< <<"de", "Autoren">>, <<"en", "Authors">>,
                 <<"es", "Autoras">>, <<"fr", "Auteurs">>, <<"pt", "Autores">> >>)),
   FILE_FORMATS |-> Variants(from_static(<< <<"de", "Dateiformate">>,
                 <<"en", "File Formats">>, <<"es", "Formatos de archivos">>,
                 <<"fr", "Formats de fichiers">>, <<"pt", "Formatos de Ficheiros">> >>))]

NoFile == [path |-> "", readable |-> FALSE, content |-> NoDoc]

\* Nobody calls concurrently and the example is not run.
Aside ==
  /\ calls = [t \in Threads |-> Idle]
  /\ labels = Labels
  /\ file = NoFile
  /\ stdout = << >>
  /\ stderr = << >>
  /\ exit = << >>

Init ==
  /\ ty \in Types
  /\ src = NoDoc
  /\ tree = NoResult
  /\ out = NoDoc
  /\ back = NoResult
  /\ acq = Unasked
  /\ pc = "start"
  /\ rest = << >>
  /\ stack = << >>
  /\ remaining_depth = RecursionLimit
  /\ Aside

\* serde_json::from_str::<T>(src)
Parse ==
  /\ pc = "start"
  /\ \E d \in Docs(ty) :
       /\ src' = d
       /\ tree' = Deserialize(ty, d)
  /\ pc' = "parsed"
  /\ UNCHANGED <<ty, out, back, acq, reader, others>>

\* A Relation, a localized string or a Link built through the public
\* interface.
Construct ==
  /\ pc = "start"
  /\ \E v \in Values(ty) : tree' = Ok(v)
  /\ pc' = "built"
  /\ UNCHANGED <<ty, src, out, back, acq, reader, others>>

\* Feed::new(title)
New ==
  /\ pc = "start"
  /\ ty = "Feed"
  /\ \E title \in FeedTitles : tree' = Ok(FeedNew(title))
  /\ pc' = "built"
  /\ UNCHANGED <<ty, src, out, back, acq, reader, others>>

Size(feed) ==
  Len(feed.links) + Len(feed.navigation) + Len(feed.facets)
    + Len(feed.publications) + Len(feed.groups)

CanGrow == pc = "built" /\ ty = "Feed" /\ Size(tree.val) < MaxLen

WithLink ==
  /\ CanGrow
  /\ \E link \in FeedLinks : tree' = Ok(with_link(tree.val, link))
  /\ UNCHANGED <<ty, src, out, back, pc, acq, reader, others>>

WithNavigation ==
  /\ CanGrow
  /\ \E link \in FeedLinks : tree' = Ok(with_navigation(tree.val, link))
  /\ UNCHANGED <<ty, src, out, back, pc, acq, reader, others>>

WithFacet ==
  /\ CanGrow
  /\ \E facet \in FeedFacets : tree' = Ok(with_facet(tree.val, facet))
  /\ UNCHANGED <<ty, src, out, back, pc, acq, reader, others>>

WithPublication ==
  /\ CanGrow
  /\ \E publication \in FeedPublications :
       tree' = Ok(with_publication(tree.val, publication))
  /\ UNCHANGED <<ty, src, out, back, pc, acq, reader, others>>

WithGroup ==
  /\ CanGrow
  /\ \E group \in FeedGroups : tree' = Ok(with_group(tree.val, group))
  /\ UNCHANGED <<ty, src, out, back, pc, acq, reader, others>>

\* link.get_acquisition() on a parsed or built Link
GetAcquisition ==
  /\ pc \in {"parsed", "built"}
  /\ ty = "Link"
  /\ tree.ok
  /\ acq = Unasked
  /\ acq' = get_acquisition(tree.val)
  /\ UNCHANGED <<ty, src, tree, out, back, pc, reader, others>>

\* serde_json::to_string(&tree)
Encode ==
  /\ pc \in {"parsed", "built"}
  /\ tree.ok
  /\ out' = Serialize(ty, tree.val)
  /\ pc' = "encoded"
  /\ UNCHANGED <<ty, src, tree, back, acq, reader, others>>

\* serde_json::from_str::<T>(out)
Reparse ==
  /\ pc = "encoded"
  /\ back' = Deserialize(ty, out)
  /\ pc' = "done"
  /\ UNCHANGED <<ty, src, tree, out, acq, reader, others>>

Next ==
  \/ Parse
  \/ Construct
  \/ New
  \/ WithLink
  \/ WithNavigation
  \/ WithFacet
  \/ WithPublication
  \/ WithGroup
  \/ GetAcquisition
  \/ Encode
  \/ Reparse

Spec == Init /\ [][Next]_vars

Built == src = NoDoc /\ pc \in {"built", "encoded", "done"}
Parsed == src # NoDoc /\ pc \in {"parsed", "encoded", "done"}
Encoded == pc \in {"encoded", "done"}


(***************************************************************************)
(* Descent: serde_json::from_str followed token by token.  src holds the   *)
(* text, rest what is left of it, stack the containers the reader is in,   *)
(* each with what the visitor there expects.  Entering an object or a      *)
(* sequence passes check_recursion!.  The visitors' trees are not built    *)
(* here: a text read to its end gives Ok(AllRead).                         *)
(***************************************************************************)
AllRead == [read |-> "all"]
Text(tokens) == [j |-> "text", tokens |-> tokens]

\* What is expected at a place: T or Option<T> (mode "T"), Vec<T> (mode
\* "Vec"), a value buffered whole for an untagged enum (mode "Any"), or a
\* value skipped under a key the struct does not declare (mode "Ignored").
Expect(t, mode, opt) == [ty |-> t, mode |-> mode, opt |-> opt]
FieldExpect(f) ==
  Expect(f.ty, IF f.de # "" THEN "Any" ELSE IF f.wrap = "Vec" THEN "Vec" ELSE "T",
         f.wrap = "Option")
Buffered == Expect("", "Any", FALSE)
Ignored == Expect("", "Ignored", FALSE)
IsStruct(e) == e.mode = "T" /\ e.ty \in StructNames

\* An open container: what it is read as, the keys or items met so far and
\* the key whose value comes next.
Frame(e, open) == [e |-> e, open |-> open, seen |-> << >>, key |-> ""]

\* One call of from_str::<T>: the text, what is left of it, the containers
\* the reader is in, its remaining_depth, and the result once returned.
NewReader(t, tokens) ==
  [ty |-> t, src |-> Text(tokens), rest |-> tokens, stack |-> << >>,
   remaining_depth |-> RecursionLimit, tree |-> NoResult, pc |-> "reading"]

\* What is expected of the next value: at the top T itself; in a struct the
\* field of the key (read from a sequence: of the position), an undeclared
\* key being skipped as IgnoredAny; in a Vec<T> a T; anywhere inside a
\* buffered or a skipped value the same again.
NextExpect(r) ==
  IF r.stack = << >> THEN Expect(r.ty, "T", FALSE)
  ELSE LET f == Head(r.stack) IN
    IF f.e.mode \in {"Any", "Ignored"} THEN f.e
    ELSE IF f.e.mode = "Vec" THEN Expect(f.e.ty, "T", FALSE)
    ELSE IF ~IsStruct(f.e) THEN Buffered
    ELSE LET fs == Schema(f.e.ty) IN
      IF f.open = "{" THEN
        IF KeyIndex(fs, f.key) = 0 THEN Ignored ELSE FieldExpect(fs[KeyIndex(fs, f.key)])
      ELSE IF Len(f.seen) < Len(fs) THEN FieldExpect(fs[Len(f.seen) + 1]) ELSE Ignored

\* A container met where no visitor takes one: invalid type, raised before
\* the container is entered.
Rejects(e, open) ==
  \/ e.mode = "Vec" /\ open = "{"
  \/ e.mode = "T" /\ e.ty \in {"String", "usize", "f32", "f64", "bool", "Url", "LangTag"}
  \/ e.mode = "T" /\ e.ty \in UnitEnumNames /\ open = "["

\* A string, a number, true, false or null read where e is expected.
ReadScalar(e, j) ==
  CASE e.mode \in {"Any", "Ignored"} -> Ok(j)
    [] e.mode = "Vec" -> Err("invalid type", e.ty)
    [] e.mode = "T" -> IF e.opt /\ j = JNull THEN Ok(None) ELSE Deserialize(e.ty, j)

\* The end of a container: a derived struct's visitor then settles the
\* fields that never came.
AtClose(f) ==
  IF ~IsStruct(f.e) THEN Ok(AllRead)
  ELSE LET fs == Schema(f.e.ty) IN
    IF f.open = "{" THEN
      LET fr == [i \in DOMAIN fs |->
                   IF \E p \in DOMAIN f.seen : f.seen[p] = fs[i].key
                   THEN Ok(AllRead) ELSE missing_field(fs[i])]
      IN IF AllOk(fr) THEN Ok(AllRead) ELSE FirstErr(fr)
    ELSE IF \E i \in DOMAIN fs : i > Len(f.seen) /\ ~fs[i].default
         THEN Err("invalid length", f.e.ty)
    ELSE Ok(AllRead)

\* The enclosing container once the value under its key, or its next item,
\* has been read.
Told(st) ==
  IF st = << >> THEN st
  ELSE <<[Head(st) EXCEPT !.seen = IF Head(st).open = "{" THEN @ ELSE Append(@, ""),
                          !.key = ""]>> \o Tail(st)

\* check_recursion! with the test left out.
check_recursion_unbounded(remaining) == FALSE

\* check_recursion!: remaining_depth -= 1; if remaining_depth == 0, the
\* error RecursionLimitExceeded.
check_recursion(remaining) == remaining - 1 = 0

\* from_str returns r.
Return(r, result) == [r EXCEPT !.tree = result, !.pc = "parsed"]

Meets(r, tokens) == r.pc = "reading" /\ r.rest # << >> /\ Head(r.rest).t \in tokens

\* the reader meets '{' or '[': the container is entered through
\* check_recursion!, except when it is skipped (IgnoredAny is read by a
\* loop of its own that does not count depth)
Opened(r) ==
  LET e == NextExpect(r)
      open == Head(r.rest).t
  IN IF e.mode = "Ignored"
       THEN [r EXCEPT !.stack = <<Frame(e, open)>> \o @, !.rest = Tail(@)]
     ELSE IF Rejects(e, open) THEN Return(r, Err("invalid type", e.ty))
     ELSE IF check_recursion(r.remaining_depth)
       THEN Return([r EXCEPT !.remaining_depth = @ - 1], RecursionLimitExceeded)
     ELSE [r EXCEPT !.remaining_depth = @ - 1,
                    !.stack = <<Frame(IF e.mode = "T" /\ ~IsStruct(e) THEN Buffered ELSE e,
                                      open)>> \o @,
                    !.rest = Tail(@)]

\* the reader meets a key of the object it is in
Keyed(r) ==
  [r EXCEPT !.stack = <<[Head(@) EXCEPT !.seen = Append(@, Head(r.rest).k),
                                        !.key = Head(r.rest).k]>> \o Tail(@),
            !.rest = Tail(@)]

\* the reader meets a string, a number, true, false or null
Scanned(r) ==
  LET got == ReadScalar(NextExpect(r), Head(r.rest).j)
  IN IF got.ok THEN [r EXCEPT !.rest = Tail(@), !.stack = Told(@)]
     ELSE Return(r, got)

\* the reader meets '}' or ']'
Closed(r) ==
  LET f == Head(r.stack)
      up == [r EXCEPT !.remaining_depth = IF f.e.mode = "Ignored" THEN @ ELSE @ + 1]
  IN IF AtClose(f).ok THEN [up EXCEPT !.rest = Tail(@), !.stack = Told(Tail(@))]
     ELSE Return(up, AtClose(f))

\* the end of the text
Ended(r) == Return(r, Ok(AllRead))

\* The call the variables hold, and the variables set from a call.
Reader ==
  [ty |-> ty, src |-> src, rest |-> rest, stack |-> stack,
   remaining_depth |-> remaining_depth, tree |-> tree, pc |-> pc]
Becomes(r) ==
  \E next \in {r} :
    /\ ty' = next.ty
    /\ src' = next.src
    /\ rest' = next.rest
    /\ stack' = next.stack
    /\ remaining_depth' = next.remaining_depth
    /\ tree' = next.tree
    /\ pc' = next.pc
    /\ UNCHANGED <<out, back, acq, others>>

DescentInit ==
  /\ ty \in ChainTypes
  /\ src = NoDoc
  /\ tree = NoResult
  /\ out = NoDoc
  /\ back = NoResult
  /\ acq = Unasked
  /\ pc = "start"
  /\ rest = << >>
  /\ stack = << >>
  /\ remaining_depth = RecursionLimit
  /\ Aside

\* serde_json::from_str::<T>(src): a new reader at the start of the text
Read ==
  /\ pc = "start"
  /\ \E d \in ChainDocs(ty) : Becomes(NewReader(ty, d))

Open == Meets(Reader, {"{", "["}) /\ Becomes(Opened(Reader))

ReadKey == Meets(Reader, {"key"}) /\ Becomes(Keyed(Reader))

Scalar == Meets(Reader, {"scalar"}) /\ Becomes(Scanned(Reader))

Shut == Meets(Reader, {"}", "]"}) /\ Becomes(Closed(Reader))

Finish == pc = "reading" /\ rest = << >> /\ Becomes(Ended(Reader))

DescentNext ==
  \/ Read
  \/ Open
  \/ ReadKey
  \/ Scalar
  \/ Shut
  \/ Finish

\* from_str runs to its return: the calling thread keeps taking steps.
Descent == DescentInit /\ [][DescentNext]_vars /\ WF_vars(DescentNext)

(***************************************************************************)
(* Calls: from_str and to_string called by concurrent callers.  Every call *)
(* of from_str reads through a Deserializer of its own, made in the call;  *)
(* to_string takes its argument by shared reference.  A caller's steps are *)
(* interleaved with the other caller's in any order.                       *)
(***************************************************************************)
\* Longest text a concurrent caller parses.
MaxText == 12
CallDocs(t) == {d \in ChainDocs(t) : Len(d) <= MaxText}

Tree(v) == [j |-> "tree", val |-> v]

\* One step of a reader, by the token it is at.
Step(r) ==
  IF r.pc # "reading" THEN r
  ELSE IF r.rest = << >> THEN Ended(r)
  ELSE CASE Head(r.rest).t \in {"{", "["} -> Opened(r)
         [] Head(r.rest).t = "key" -> Keyed(r)
         [] Head(r.rest).t = "scalar" -> Scanned(r)
         [] Head(r.rest).t \in {"}", "]"} -> Closed(r)

\* from_str run from its call to its return with nothing in between.
RECURSIVE RunAlone(_)
RunAlone(r) == IF r.pc # "reading" THEN r ELSE RunAlone(Step(r))

\* A Deserializer that all callers read through.
SharedDeserializer(t) == calls[CHOOSE u \in Threads : \A w \in Threads : u <= w]

\* The Deserializer caller t reads through: the one its call of from_str
\* made (Deserializer::from_str inside serde_json::from_str).
Deserializer(t) == calls[t]

CallsInit ==
  /\ ty = ""
  /\ src = NoDoc
  /\ tree = NoResult
  /\ out = NoDoc
  /\ back = NoResult
  /\ acq = Unasked
  /\ pc = "start"
  /\ rest = << >>
  /\ stack = << >>
  /\ remaining_depth = RecursionLimit
  /\ Aside

Rest == <<ty, src, tree, out, back, acq, pc, reader, labels, file, stdout, stderr, exit>>

\* caller t calls serde_json::from_str::<T>(text)
CallParse(t) ==
  /\ calls[t].pc = "idle"
  /\ \E k \in ChainTypes : \E d \in CallDocs(k) :
       calls' = [calls EXCEPT ![t] = NewReader(k, d)]
  /\ UNCHANGED Rest

\* the reader of caller t takes its next step
Advance(t) ==
  /\ calls[t].pc = "reading"
  /\ calls' = [calls EXCEPT ![t] = Step(Deserializer(t))]
  /\ UNCHANGED Rest

\* caller t calls serde_json::to_string(&label) on a label constant
CallEncode(t) ==
  /\ calls[t].pc = "idle"
  /\ \E name \in DOMAIN labels :
       calls' = [calls EXCEPT ![t] =
                   [Idle EXCEPT !.ty = "StringWithAlternates", !.src = Tree(labels[name]),
                                !.pc = "encoding"]]
  /\ UNCHANGED Rest

\* to_string returns to caller t
ReturnEncode(t) ==
  /\ calls[t].pc = "encoding"
  /\ calls' = [calls EXCEPT ![t] =
                 [@ EXCEPT !.tree = Ok(Serialize(calls[t].ty, calls[t].src.val)),
                           !.pc = "encoded"]]
  /\ UNCHANGED Rest

\* caller t takes the result; it may call again
Take(t) ==
  /\ calls[t].pc \in {"parsed", "encoded"}
  /\ calls' = [calls EXCEPT ![t] = Idle]
  /\ UNCHANGED Rest

CallsNext ==
  \E t \in Threads :
    \/ CallParse(t)
    \/ Advance(t)
    \/ CallEncode(t)
    \/ ReturnEncode(t)
    \/ Take(t)

Calls == CallsInit /\ [][CallsNext]_vars

(***************************************************************************)
(* Cli: one run of the validate example on the file named on its command   *)
(* line.  stdout and stderr hold what the run printed, exit its status.    *)
(***************************************************************************)
Paths == {"feed.json", "missing.json"}
Files ==
  {[path |-> p, readable |-> TRUE, content |-> d] : p \in Paths, d \in FeedDocs}
    \cup {[path |-> p, readable |-> FALSE, content |-> NoDoc] : p \in Paths}

\* std::fs::read_to_string on a file that cannot be read.
IoError == Err("No such file or directory (os error 2)", "")

\* `?` in a function returning anyhow::Result: the error is converted with
\* From, which keeps the error and attaches no context to it.
Question(e) == [error |-> e, context |-> << >>]

\* serde_json::to_string_pretty: the same document, indented.
to_string_pretty(t, v) == [j |-> "pretty", doc |-> Serialize(t, v)]

\* main returning Err(e): the error is printed to stderr and the process
\* exits with status 1; Ok(()) exits with 0.
Failure == 1
Success == 0

CliInit ==
  /\ ty = "Feed"
  /\ src = NoDoc
  /\ tree = NoResult
  /\ out = NoDoc
  /\ back = NoResult
  /\ acq = Unasked
  /\ pc = "start"
  /\ rest = << >>
  /\ stack = << >>
  /\ remaining_depth = RecursionLimit
  /\ calls = [t \in Threads |-> Idle]
  /\ labels = Labels
  /\ file \in Files
  /\ stdout = << >>
  /\ stderr = << >>
  /\ exit = << >>

\* What a run leaves behind: the text read and its parse, the lines printed
\* and the exit status.
Outcome(text, feed, printed, reported, status) ==
  [src |-> text, tree |-> feed, stdout |-> printed, stderr |-> reported, exit |-> <<status>>]

\* let feed = from_str(&json)?; let output = to_string_pretty(&feed)?;
\* println!("{output}"); Ok(())
Validated(text, feed) ==
  IF feed.ok
  THEN Outcome(text, feed, <<to_string_pretty("Feed", feed.val)>>, << >>, Success)
  ELSE Outcome(text, feed, << >>, <<Question(feed)>>, Failure)

\* ValidatorCommand::run on the file f, and main on its result
run(f) ==
  IF ~f.readable
  THEN Outcome(NoDoc, NoResult, << >>, <<Question(IoError)>>, Failure)
  ELSE Validated(f.content, Deserialize("Feed", f.content))

\* One run of the example, from its start to its exit.
Run ==
  /\ exit = << >>
  /\ \E end \in {run(file)} :
       /\ src' = end.src
       /\ tree' = end.tree
       /\ stdout' = stdout \o end.stdout
       /\ stderr' = stderr \o end.stderr
       /\ exit' = end.exit
  /\ pc' = "ran"
  /\ UNCHANGED <<ty, out, back, acq, reader, calls, labels, file>>

CliNext == Run

Cli == CliInit /\ [][CliNext]_vars
(***************************************************************************)
(* Properties                                                              *)
(***************************************************************************)
\* The elements a field's JSON value holds: those of a sequence, or the
\* value itself.
Elems(v) == IF v.j = "seq" THEN v.items ELSE <<v>>

\* A field at its absent / empty value.
Empty(f, v) ==
  CASE f.wrap = "Option" -> v = None
    [] f.wrap = "Vec" -> Len(v) = 0
    [] OTHER -> FALSE

\* Every field of the entity e of type t other than the named one is
\* absent / empty.
AllEmptyBut(t, e, name) ==
  \A i \in DOMAIN Schema(t) :
    Schema(t)[i].name # name => Empty(Schema(t)[i], e[Schema(t)[i].name])

FieldOfKey(t, k) == Schema(t)[KeyIndex(Schema(t), k)]

\* The fields of a struct that take the singleton-or-sequence shorthand.
FlattenedFields(t) == {i \in DOMAIN Schema(t) : Schema(t)[i].de # ""}

\* C1: every Feed built through Feed::new, the with_* builders, the public
\* rel field and From<String> for Relation is parsed back from its encoding
\* equal to itself.
C1_RoundTrip ==
  (ty = "Feed" /\ Built /\ pc = "done") => back = tree

\* C2: every list field read through the singleton-or-sequence shorthand is
\* encoded as its bare element when it holds exactly one element, and as a
\* sequence when it holds two or more.
C2_EncodeFlattens ==
  (Encoded /\ ty \in StructNames) =>
    \A i \in FlattenedFields(ty) :
      LET f == Schema(ty)[i]
          list == tree.val[f.name]
      IN /\ Len(list) = 1 => (Has(out, f.key) /\ Get(out, f.key) = Serialize(f.ty, list[1]))
         /\ Len(list) >= 2 => (Has(out, f.key) /\ Get(out, f.key).j = "seq")

\* C3: a Link's rel list of one entry is encoded as the bare relation string
\* (rel = [self] gives "self"), a list of two or more as the array of the
\* strings in list order (rel = [self, alternate] gives ["self",
\* "alternate"]), and an empty list as no rel key at all.
C3_LinkRel ==
  (ty = "Link" /\ Encoded) =>
    LET rel == tree.val.rel IN
    /\ Len(rel) = 0 => ~Has(out, "rel")
    /\ Len(rel) = 1 => (Has(out, "rel") /\ Get(out, "rel") = Serialize("Relation", rel[1]))
    /\ Len(rel) >= 2 =>
         /\ Has(out, "rel")
         /\ Get(out, "rel") = JSeq([i \in DOMAIN rel |-> Serialize("Relation", rel[i])])
    /\ rel = <<RelUnit("Myself")>> => Get(out, "rel") = JStr("self")
    /\ rel = <<RelUnit("Myself"), RelUnit("Alternate")>> =>
         Get(out, "rel") = JSeq(<<JStr("self"), JStr("alternate")>>)

C3_Witness ==
  /\ ty = "Link" /\ pc = "encoded"
  /\ tree.val.rel = <<RelUnit("Myself"), RelUnit("Alternate")>>
  /\ Get(out, "rel") = JSeq(<<JStr("self"), JStr("alternate")>>)

\* C4: a singleton-or-sequence field whose source value is a sequence of k
\* elements parses to a list of exactly k elements, each the parse of the
\* source element at its place (repeats kept); a source value that is no
\* sequence parses to a one-element list; an absent field to the empty list.
C4_ListShape ==
  (Parsed /\ ty \in StructNames /\ src.j = "obj" /\ tree.ok) =>
    \A i \in FlattenedFields(ty) :
      LET f == Schema(ty)[i]
          list == tree.val[f.name]
      IN IF ~Has(src, f.key) THEN Len(list) = 0
         ELSE IF Get(src, f.key).j = "seq" THEN Len(list) = Len(Get(src, f.key).items)
         ELSE Len(list) = 1

\* C5: for Season, Volume, Issue, Chapter, Episode and StoryArc a bare number
\* n parses to the entity with position n and every other field absent or
\* empty, and an object parses field by field.
C5_NumberShorthand ==
  (ty = "Contains" /\ Parsed) =>
    \A k \in NumlikeKeys :
      (Has(src, k) /\ \A i \in DOMAIN Elems(Get(src, k)) : Elems(Get(src, k))[i].j \in {"num", "obj"}) =>
      LET f == FieldOfKey("Contains", k)
          items == Elems(Get(src, k))
      IN /\ tree.ok
         /\ Len(tree.val[f.name]) = Len(items)
         /\ \A i \in DOMAIN items :
              LET e == tree.val[f.name][i] IN
              /\ items[i].j = "num" =>
                   (e.position = items[i].n /\ AllEmptyBut(f.ty, e, "position"))
              /\ items[i].j = "obj" =>
                   /\ e.position = MaxPos
                   /\ e.name = Some(Always("Finale"))
                   /\ \A m \in DOMAIN Schema(f.ty) :
                        Schema(f.ty)[m].name \notin {"position", "name"}
                          => Empty(Schema(f.ty)[m], e[Schema(f.ty)[m].name])

C5_Witness ==
  /\ ty = "Contains" /\ pc = "parsed"
  /\ src = JObj(<< <<"season", JNum(2)>> >>)
  /\ tree.ok
  /\ tree.val.season = <<SeasonNew(2)>>

\* C6: a Season, Volume, Issue, Chapter, Episode or StoryArc is always
\* encoded as an object carrying its position key, never as a bare number,
\* also when it was parsed from a bare number.
C6_FullObject ==
  (ty = "Contains" /\ Encoded) =>
    \A k \in NumlikeKeys :
      LET f == FieldOfKey("Contains", k)
          list == tree.val[f.name]
      IN Len(list) > 0 =>
           /\ Has(out, k)
           /\ Len(Elems(Get(out, k))) = Len(list)
           /\ \A i \in DOMAIN list :
                LET o == Elems(Get(out, k))[i] IN
                /\ o.j = "obj"
                /\ Has(o, "position")
                /\ Get(o, "position") = JNum(list[i].position)

C6_Witness ==
  /\ ty = "Contains" /\ pc = "encoded"
  /\ src = JObj(<< <<"season", JNum(2)>> >>)
  /\ Elems(Get(out, "season")) = << JObj(<< <<"position", JNum(2)>> >>) >>

\* The fields holding Collection, Periodical, Series, Contributor and
\* AltIdentifier entities in the documents parsed.
StringyFieldKeys(t) ==
  CASE t = "BelongsTo" -> StringyKeys
    [] t = "PublicationMetadata" -> {"author", "translator", "altIdentifier"}
    [] OTHER -> {}

PrimaryName(t) == IF t = "AltIdentifier" THEN "value" ELSE "name"
PrimaryValue(t, s) == IF t = "AltIdentifier" THEN s ELSE Always(s)

\* C7: for Collection, Periodical, Series, Contributor and AltIdentifier a
\* bare string s parses to the entity whose name (value for AltIdentifier)
\* is s and whose other fields are all absent or empty, and the entity is
\* encoded as an object, never as a bare string.
C7_StringShorthand ==
  (ty \in {"BelongsTo", "PublicationMetadata"} /\ Parsed) =>
    \A k \in StringyFieldKeys(ty) :
      (Has(src, k) /\ \A i \in DOMAIN Elems(Get(src, k)) : Elems(Get(src, k))[i].j \in {"str", "obj"}) =>
        LET f == FieldOfKey(ty, k)
            items == Elems(Get(src, k))
        IN /\ tree.ok
           /\ Len(tree.val[f.name]) = Len(items)
           /\ \A i \in DOMAIN items : items[i].j = "str" =>
                LET e == tree.val[f.name][i] IN
                /\ e[PrimaryName(f.ty)] = PrimaryValue(f.ty, items[i].s)
                /\ AllEmptyBut(f.ty, e, PrimaryName(f.ty))
                /\ (Encoded /\ Len(items) > 0) =>
                     /\ Has(out, k)
                     /\ Elems(Get(out, k))[i] = JObj(<< <<PrimaryName(f.ty), JStr(items[i].s)>> >>)

C7_Witness ==
  /\ ty = "PublicationMetadata" /\ pc = "encoded"
  /\ src = JObj(<< <<"title", JStr("Dune")>>, <<"author", JStr("Ann")>> >>)
  /\ tree.val.author = <<ContributorNew(Always("Ann"))>>
  /\ Elems(Get(out, "author")) = << JObj(<< <<"name", JStr("Ann")>> >>) >>

MixedCollections ==
  JObj(<< <<"collection",
            JSeq(<<JStr("Fiction"),
                   JObj(<< <<"name", JStr("Drama")>>, <<"position", JNum(2)>> >>)>>)>> >>)

\* C8: the collection value ["Fiction", {name: "Drama", position: 2}] parses
\* to two Collections, Fiction without a position and then Drama with
\* position 2, and is encoded as the array of the two objects in that order.
C8_MixedSequence ==
  (ty = "BelongsTo" /\ Parsed /\ src = MixedCollections) =>
    /\ tree.ok
    /\ Len(tree.val.collection) = 2
    /\ tree.val.collection[1].name = Always("Fiction")
    /\ tree.val.collection[1].position = None
    /\ tree.val.collection[2].name = Always("Drama")
    /\ tree.val.collection[2].position = Some(2)
    /\ Encoded =>
         Get(out, "collection") =
           JSeq(<<JObj(<< <<"name", JStr("Fiction")>> >>),
                  JObj(<< <<"name", JStr("Drama")>>, <<"position", JNum(2)>> >>)>>)

C8_Witness ==
  /\ ty = "BelongsTo" /\ pc = "encoded" /\ src = MixedCollections
  /\ Len(tree.val.collection) = 2
  /\ Get(out, "collection").j = "seq"
  /\ Len(Get(out, "collection").items) = 2

\* The tag each string of the fixed table and of the acquisition table
\* stands for, Custom for every other string.
Resolved(s) ==
  CASE s = "self" -> RelUnit("Myself")
    [] s = "alternate" -> RelUnit("Alternate")
    [] s = "contents" -> RelUnit("Contents")
    [] s = "cover" -> RelUnit("Cover")
    [] s = "manifest" -> RelUnit("Manifest")
    [] s = "profile" -> RelUnit("Profile")
    [] s = "first" -> RelUnit("First")
    [] s = "previous" -> RelUnit("Previous")
    [] s = "next" -> RelUnit("Next")
    [] s = "last" -> RelUnit("Last")
    [] s = "current" -> RelUnit("Current")
    [] s = "search" -> RelUnit("Search")
    [] s = "subsection" -> RelUnit("Subsection")
    [] s = "http://opds-spec.org/sort/new" -> RelUnit("SortNew")
    [] s = "http://opds-spec.org/sort/popular" -> RelUnit("SortPopular")
    [] s = "http://opds-spec.org/acquisition" -> RelAcquisition("Fallback")
    [] s = "http://opds-spec.org/acquisition/open-access" -> RelAcquisition("OpenAccess")
    [] s = "http://opds-spec.org/acquisition/buy" -> RelAcquisition("Buy")
    [] s = "http://opds-spec.org/acquisition/sample" -> RelAcquisition("Sample")
    [] s = "http://opds-spec.org/acquisition/subscribe" -> RelAcquisition("Subscribe")
    [] s = "preview" -> RelAcquisition("Preview")
    [] OTHER -> RelCustom(s)

\* C9: resolving a relation string never fails; a string equal to an entry
\* of the fixed table or of the acquisition table gives that entry's tag,
\* and every other string R, one differing from an entry only in letter
\* case included, gives Custom(R) with R unchanged.
C9_Resolve ==
  (ty = "Relation" /\ Parsed /\ src.j = "str") => tree = Ok(Resolved(src.s))

C9_Witness ==
  /\ ty = "Relation" /\ pc = "parsed"
  /\ src = JStr("Self")
  /\ tree = Ok(RelCustom("Self"))

\* The acquisition-relation URI of each kind under the acquisition base.
AcquisitionUri(kind) ==
  CASE kind = "Fallback" -> "http://opds-spec.org/acquisition"
    [] kind = "OpenAccess" -> "http://opds-spec.org/acquisition/open-access"
    [] kind = "Buy" -> "http://opds-spec.org/acquisition/buy"
    [] kind = "Sample" -> "http://opds-spec.org/acquisition/sample"
    [] kind = "Subscribe" -> "http://opds-spec.org/acquisition/subscribe"
    [] kind = "Preview" -> "http://opds-spec.org/acquisition/preview"

AcquisitionKinds == {"Fallback", "OpenAccess", "Buy", "Sample", "Subscribe", "Preview"}

\* C10 as stated: each of the six acquisition kinds is resolved from its URI
\* under http://opds-spec.org/acquisition to Acquisition of that kind.
C10_SixUris ==
  (ty = "Relation" /\ Parsed) =>
    \A kind \in AcquisitionKinds :
      src = JStr(AcquisitionUri(kind)) => tree = Ok(RelAcquisition(kind))

\* C10: fallback, open-access, buy, sample and subscribe are resolved from
\* their URIs under http://opds-spec.org/acquisition and preview from the
\* plain string "preview", each to Acquisition of that kind; the URI
\* http://opds-spec.org/acquisition/preview is a Custom relation.
C10_FiveUrisAndPreview ==
  (ty = "Relation" /\ Parsed) =>
    /\ \A kind \in AcquisitionKinds \ {"Preview"} :
         src = JStr(AcquisitionUri(kind)) => tree = Ok(RelAcquisition(kind))
    /\ src = JStr("preview") => tree = Ok(RelAcquisition("Preview"))
    /\ src = JStr(AcquisitionUri("Preview")) =>
         tree = Ok(RelCustom("http://opds-spec.org/acquisition/preview"))

C10_Witness ==
  /\ ty = "Relation" /\ pc = "parsed"
  /\ src = JStr("preview")
  /\ tree = Ok(RelAcquisition("Preview"))

\* The strings of the fixed table and of the acquisition table.
TableStrings == {s \in RelationStrings : Resolved(s).variant # "Custom"}

Unresolved(r) == r.variant = "Custom" /\ r.s \in TableStrings

\* C11: no tree parsed, or built through From<String> for Relation, holds a
\* rel entry Custom(s) for a string s of the fixed table or of the
\* acquisition table.
C11_NoUnresolved ==
  tree.ok =>
    /\ ty = "Relation" => ~Unresolved(tree.val)
    /\ ty = "Link" => \A i \in DOMAIN tree.val.rel : ~Unresolved(tree.val.rel[i])
    /\ ty = "Feed" =>
         \A i \in DOMAIN tree.val.links :
           \A k \in DOMAIN tree.val.links[i].rel : ~Unresolved(tree.val.links[i].rel[k])

\* C12: get_acquisition answers Some(kind) exactly when the rel list holds an
\* Acquisition entry, kind being that of the first such entry in list order,
\* and None otherwise; asking leaves the link as it was.
C12_GetAcquisition ==
  /\ [](  (ty = "Link" /\ acq # Unasked) =>
            LET rel == tree.val.rel
                at == {i \in DOMAIN rel : rel[i].variant = "Acquisition"}
            IN IF at = {} THEN acq = None
               ELSE acq = Some(rel[CHOOSE i \in at : \A k \in at : i <= k].kind)  )
  /\ [][GetAcquisition => tree' = tree]_vars

C12_Witness ==
  /\ ty = "Link"
  /\ tree.ok
  /\ tree.val.rel = <<RelAcquisition("Sample"), RelAcquisition("Buy")>>
  /\ acq = Some("Sample")

\* C13: every localized string the public interface can hold, the scalar and
\* the maps TaggedStrings::from_static makes of any slice, is parsed back
\* from its encoding equal to itself, entries and key order included.
C13_LocalizedRoundTrip ==
  (ty = "StringWithAlternates" /\ Built /\ pc = "done") => back = tree

\* Language tags in ascending order.
TagBefore(a, b) == <<a, b>> \in {<<"de", "en">>, <<"de", "fr">>, <<"en", "fr">>}

\* The value the last entry of key k of a JSON object holds.
LastOf(j, k) ==
  j.entries[CHOOSE p \in DOMAIN j.entries :
              j.entries[p][1] = k /\ \A q \in DOMAIN j.entries : j.entries[q][1] = k => q <= p][2]

\* A JSON object all of whose entries map a language tag to a string.
TagMap(j) ==
  /\ j.j = "obj"
  /\ \A p \in DOMAIN j.entries :
       j.entries[p][1] \in {"de", "en", "fr"} /\ j.entries[p][2].j = "str"

\* C14: a scalar string parses to the scalar variant and a mapping, also of
\* one entry or of none, to the map variant; a parsed map has each key of the
\* source once, in ascending tag order, and is encoded entry by entry in the
\* stored order.
C14_LocalizedShapes ==
  (ty = "StringWithAlternates" /\ Parsed) =>
    /\ src.j = "str" => tree = Ok(Always(src.s))
    /\ TagMap(src) => tree.ok
    /\ (src.j = "obj" /\ tree.ok) =>
         LET choices == tree.val.choices IN
         /\ tree.val.variant = "Variants"
         /\ {choices[i][1] : i \in DOMAIN choices} = {src.entries[p][1] : p \in DOMAIN src.entries}
         /\ \A i \in DOMAIN choices : \A k \in DOMAIN choices :
              i < k => TagBefore(choices[i][1], choices[k][1])
         /\ \A i \in DOMAIN choices : JStr(choices[i][2]) = LastOf(src, choices[i][1])
         /\ Encoded =>
              /\ out.j = "obj"
              /\ Len(out.entries) = Len(choices)
              /\ \A i \in DOMAIN choices :
                   out.entries[i] = <<choices[i][1], JStr(choices[i][2])>>

C14_Witness ==
  /\ ty = "StringWithAlternates" /\ pc = "encoded"
  /\ src = JObj(<< <<"fr", JStr("Auteurs")>>, <<"en", JStr("Authors")>> >>)
  /\ tree = Ok(Variants(<< <<"en", "Authors">>, <<"fr", "Auteurs">> >>))
  /\ out = JObj(<< <<"en", JStr("Authors")>>, <<"fr", JStr("Auteurs")>> >>)

RECURSIVE NoNullNoEmpty(_)
\* No field of the JSON value, at any depth, is null or an empty sequence.
NoNullNoEmpty(j) ==
  CASE j.j = "obj" ->
         \A p \in DOMAIN j.entries :
           /\ j.entries[p][2] # JNull
           /\ j.entries[p][2] # JSeq(<<>>)
           /\ NoNullNoEmpty(j.entries[p][2])
    [] j.j = "seq" -> \A i \in DOMAIN j.items : NoNullNoEmpty(j.items[i])
    [] OTHER -> TRUE

\* C15: the encoding of a tree has no field whose value is null and no field
\* whose value is an empty sequence.
C15_NothingEmpty ==
  Encoded => NoNullNoEmpty(out)

\* C16: a Link parsed without a templated key has the flag false; the
\* encoding has no templated key when the flag is false and the key with
\* true when it is true; Link::new gives the flag false, Link::template
\* gives it true, and the two links agree in every other field.
C16_Templated ==
  ty = "Link" =>
    /\ (Parsed /\ tree.ok) =>
         tree.val.templated = (Has(src, "templated") /\ Get(src, "templated") = JBool(TRUE))
    /\ (Encoded /\ ~tree.val.templated) => ~Has(out, "templated")
    /\ (Encoded /\ tree.val.templated) =>
         (Has(out, "templated") /\ Get(out, "templated") = JBool(TRUE))
    /\ (Built /\ tree.val.href = Some("/search{?q}")) =>
         /\ tree.val \in {LinkNew("/search{?q}", tree.val.mime),
                          LinkTemplate("/search{?q}", tree.val.mime)}
         /\ ~LinkNew("/search{?q}", tree.val.mime).templated
         /\ LinkTemplate("/search{?q}", tree.val.mime).templated
         /\ [LinkTemplate("/search{?q}", tree.val.mime) EXCEPT !.templated = FALSE]
              = LinkNew("/search{?q}", tree.val.mime)

C16_Witness ==
  /\ ty = "Link" /\ pc = "encoded" /\ Built
  /\ tree.val.templated
  /\ Get(out, "templated") = JBool(TRUE)

\* A metadata object without a title key.
NoTitle(m) == m.j = "obj" /\ ~Has(m, "title")

\* The objects of the sequence under the key, if there is one.
Items(j, key) ==
  IF j.j = "obj" /\ Has(j, key) /\ Get(j, key).j = "seq"
  THEN SelectSeq(Get(j, key).items, LAMBDA item : item.j = "obj")
  ELSE << >>

\* Some element of the list under the key has a metadata without a title.
NoTitleIn(j, key) ==
  \E i \in DOMAIN Items(j, key) : NoTitle(Get(Items(j, key)[i], "metadata"))

\* The metadata of the feed, or of a group, facet or publication nested in
\* it, has no title.
LacksTitle(j) ==
  \/ NoTitle(Get(j, "metadata"))
  \/ NoTitleIn(j, "groups")
  \/ NoTitleIn(j, "facets")
  \/ NoTitleIn(j, "publications")
  \/ \E i \in DOMAIN Items(j, "groups") : NoTitleIn(Items(j, "groups")[i], "publications")

\* C17: parsing a Feed document in which the metadata of the feed, or of a
\* group, facet or publication nested in it, has no title fails with the
\* missing-field error naming title, and gives no tree.
C17_MissingTitle ==
  (ty = "Feed" /\ Parsed /\ LacksTitle(src)) =>
    /\ ~tree.ok
    /\ "val" \notin DOMAIN tree
    /\ tree.err = "missing field"
    /\ tree.at = "title"

C17_Witness ==
  /\ ty = "Feed" /\ pc = "parsed"
  /\ NoTitleIn(src, "publications")
  /\ tree = Err("missing field", "title")

\* The strings of the documents that the closed enumeration of each key
\* declares.
Declared ==
  {<<"layout", "fixed">>, <<"readingProgression", "rtl">>, <<"state", "available">>,
   <<"accessMode", "textual">>, <<"feature", "index">>, <<"hazard", "sound">>,
   <<"exemption", "eaa-microenterprise">>}

OffendingKey(j) ==
  CASE j \in MalformedFeedDocs /\ \E p \in DOMAIN j.entries : j.entries[p][1] = "links" -> "language"
    [] j \in MalformedFeedDocs /\ Has(Get(Get(j, "publications").items[1], "metadata"), "language") -> "language"
    [] j \in MalformedFeedDocs -> "identifier"
    [] j = EnumDoc("layout", "bogus") -> "layout"
    [] j = EnumDoc("state", "bogus") -> "state"
    [] j \in UntitledFeedDocs /\ LacksTitle(j) -> "title"
    [] OTHER -> ""

\* C19: a Feed parse gives a complete tree or an error, never both; a
\* malformed language tag, a malformed identifier, an invalid enumeration
\* value or a missing required field at any depth makes the whole parse an
\* error without a tree, and the error names the field of the offending
\* input.
C19_AllOrNothing ==
  (ty = "Feed" /\ Parsed) =>
    /\ tree.ok => DOMAIN tree = {"ok", "val"}
    /\ ~tree.ok => "val" \notin DOMAIN tree
    /\ OffendingKey(src) # "" => (~tree.ok /\ tree.at = OffendingKey(src))

\* C20: a shorthand field whose source value has a shape outside the
\* accepted ones (a string for a number-or-object, a number for a
\* string-or-object, a boolean, a sequence inside a sequence) makes the parse
\* fail with an error that names the field; the value is not coerced.
C20_ShapeError ==
  Parsed =>
    /\ (ty = "Contains" /\ Has(src, "season") /\ Get(src, "season") \in NumlikeBadShapes) =>
         (~tree.ok /\ tree.at = "season")
    /\ (ty = "BelongsTo" /\ Has(src, "collection") /\ Get(src, "collection") \in StringyBadShapes) =>
         (~tree.ok /\ tree.at = "collection")


\* The bibliographic kinds of the containment hierarchy.
BibKinds ==
  {"Collection", "Periodical", "Series", "Season", "Volume", "Issue",
   "Chapter", "Article", "Episode", "StoryArc"}

\* The kinds a kind nests: the element types of its child-list fields.
Nests(k) ==
  {Schema(k)[i].ty : i \in {p \in DOMAIN Schema(k) : Schema(k)[p].wrap = "Vec"}} \cap BibKinds

\* The kinds reached from the kinds ks by at most n further nesting edges.
RECURSIVE NestsWithin(_, _)
NestsWithin(ks, n) ==
  IF n = 0 THEN ks ELSE NestsWithin(ks \cup UNION {Nests(k) : k \in ks}, n - 1)

\* The kinds reached from k by one or more nesting edges.
NestsPlus(k) == NestsWithin(Nests(k), Cardinality(BibKinds))

\* C21: the nests-relation over the bibliographic kinds, read from the
\* child-list fields each kind declares, is acyclic: no kind reaches itself
\* by one or more nesting edges.
C21_Acyclic ==
  \A k \in BibKinds : k \notin NestsPlus(k)

\* The nesting of a text: the most containers open at one place of it.
Opens(text, i) == Cardinality({p \in 1..i : text[p].t \in {"{", "["}})
Shuts(text, i) == Cardinality({p \in 1..i : text[p].t \in {"}", "]"}})
Depth(text) ==
  LET ds == {Opens(text, i) - Shuts(text, i) : i \in DOMAIN text}
  IN CHOOSE d \in ds : \A x \in ds : x <= d

ElemVariants(f, x) ==
  LET key == IF f.de = "deserialize_flattened_vec_numlike" THEN "position"
             ELSE IF f.de = "deserialize_flattened_vec_stringy" THEN PrimaryName(f.ty)
             ELSE ""
      bare == IF key = "position" THEN "num" ELSE "str"
  IN {x}
       \cup (IF key # "" /\ x.j = bare THEN {JObj(<< <<key, x>> >>)} ELSE {})
       \cup (IF key # "" /\ x.j = "obj" /\ Len(x.entries) = 1 /\ x.entries[1][1] = key
                /\ x.entries[1][2].j = bare
             THEN {x.entries[1][2]} ELSE {})

\* The shapes of the value of a flattened field: the sequence of its
\* elements, each in either shape, and the bare element when there is one.
ValueVariants(f, v) ==
  LET items == Elems(v)
      qs == {q \in [DOMAIN items -> UNION {ElemVariants(f, items[i]) : i \in DOMAIN items}] :
               \A i \in DOMAIN items : q[i] \in ElemVariants(f, items[i])}
  IN {JSeq(q) : q \in qs} \cup {q[1] : q \in {r \in qs : Len(items) = 1 /\ r[1].j # "seq"}}

\* The documents that differ from the object j, read as a t, in shorthand
\* shape only.
DocVariants(t, j) ==
  LET fs == Schema(t)
      At(p) == IF KeyIndex(fs, j.entries[p][1]) # 0 /\ fs[KeyIndex(fs, j.entries[p][1])].de # ""
               THEN {<<j.entries[p][1], v>> :
                       v \in ValueVariants(fs[KeyIndex(fs, j.entries[p][1])], j.entries[p][2])}
               ELSE {j.entries[p]}
  IN {JObj(es) : es \in {e \in [DOMAIN j.entries -> UNION {At(p) : p \in DOMAIN j.entries}] :
                           \A p \in DOMAIN j.entries : e[p] \in At(p)}}

\* C23: two documents that differ only in shorthand shape (a bare element or
\* a one-element sequence, a bare number n or the object with only position
\* n, a bare string s or the object with only name s) parse to equal trees
\* and are encoded to the same output.
C23_ShapeBlind ==
  (Parsed /\ ty \in StructNames /\ src.j = "obj") =>
    \A d \in DocVariants(ty, src) :
      LET other == Deserialize(ty, d) IN
      (tree.ok \/ other.ok) =>
        /\ other = tree
        /\ Serialize(ty, other.val) = Serialize(ty, tree.val)

Names(variants) == {variants[i][2] : i \in DOMAIN variants}
TableTags(s) ==
  {RelUnit(RelationUnit[i][1]) : i \in {p \in DOMAIN RelationUnit : RelationUnit[p][2] = s}}
    \cup {RelAcquisition(AcquisitionKind[i][1]) :
            i \in {p \in DOMAIN AcquisitionKind : AcquisitionKind[p][2] = s}}
Candidates(s) == IF TableTags(s) = {} THEN {RelCustom(s)} ELSE TableTags(s)

\* C25: the fixed relation table and the acquisition table share no string;
\* a parsed relation string has exactly one candidate result (its tag in
\* one of the tables, else Custom of the string) and resolves to it; and the
\* encoding of the resolved tag parses back to the same tag.
C25_Disjoint ==
  (ty = "Relation" /\ Parsed /\ src.j = "str") =>
    /\ Names(RelationUnit) \cap Names(AcquisitionKind) = {}
    /\ Cardinality(Candidates(src.s)) = 1
    /\ tree.ok /\ tree.val \in Candidates(src.s)
    /\ Encoded => out.j = "str" /\ Candidates(out.s) = Candidates(src.s)
    /\ pc = "done" => back = tree
\* The bare string "preview", next to "previous" of the fixed table, has gone
\* through parse, encode and parse as the acquisition tag Preview.
C25_Witness ==
  /\ ty = "Relation" /\ pc = "done"
  /\ src = JStr("preview")
  /\ tree = Ok(RelAcquisition("Preview"))
  /\ out = JStr("preview")
  /\ back = tree

\* The five lists of a feed, and a step that appends one item of args at the
\* end of list own and leaves the metadata and the other lists as they were.
FeedLists == {"links", "navigation", "facets", "publications", "groups"}
AppendsTo(own, args) ==
  /\ tree'.ok
  /\ Len(tree'.val[own]) = Len(tree.val[own]) + 1
  /\ SubSeq(tree'.val[own], 1, Len(tree.val[own])) = tree.val[own]
  /\ tree'.val[own][Len(tree'.val[own])] \in args
  /\ tree'.val.metadata = tree.val.metadata
  /\ \A other \in FeedLists \ {own} : tree'.val[other] = tree.val[other]

\* C26: Feed::new(title) gives a feed of that title whose five lists are
\* empty; every with_* call appends its argument at the end of its own list
\* and changes nothing else of the feed; so every list of a built feed holds
\* arguments of its own builder only.
C26_Builders ==
  /\ [][New => /\ tree'.ok
               /\ tree'.val.metadata.title \in FeedTitles
               /\ \A list \in FeedLists : tree'.val[list] = << >>]_vars
  /\ [][/\ WithLink => AppendsTo("links", FeedLinks)
        /\ WithNavigation => AppendsTo("navigation", FeedLinks)
        /\ WithFacet => AppendsTo("facets", FeedFacets)
        /\ WithPublication => AppendsTo("publications", FeedPublications)
        /\ WithGroup => AppendsTo("groups", FeedGroups)]_vars
  /\ []((ty = "Feed" /\ pc = "built") =>
          /\ \A i \in DOMAIN tree.val.links : tree.val.links[i] \in FeedLinks
          /\ \A i \in DOMAIN tree.val.navigation : tree.val.navigation[i] \in FeedLinks
          /\ \A i \in DOMAIN tree.val.facets : tree.val.facets[i] \in FeedFacets
          /\ \A i \in DOMAIN tree.val.publications : tree.val.publications[i] \in FeedPublications
          /\ \A i \in DOMAIN tree.val.groups : tree.val.groups[i] \in FeedGroups)
\* A feed built by with_navigation after with_link: one link in each list.
C26_Witness ==
  /\ ty = "Feed" /\ pc = "built"
  /\ tree.val.metadata.title = Always("Catalog")
  /\ tree.val.links = <<LinkTemplate("/search{?q}", None)>>
  /\ tree.val.navigation = <<[LinkNew("/a", None) EXCEPT !.rel = <<RelUnit("Myself")>>]>>
  /\ tree.val.facets = << >> /\ tree.val.publications = << >> /\ tree.val.groups = << >>

\* C27: canonical output is a fixed point of parse-then-encode.  For every
\* document that parses, the encoding parses back to the same tree, and that
\* tree encodes to the same output again.
C27_FixedPoint ==
  (Parsed /\ pc = "done") =>
    /\ back = tree
    /\ Serialize(ty, back.val) = out

\* Some element of the list under the key is an object without a links key.
NoLinksIn(j, key) == \E i \in DOMAIN Items(j, key) : ~Has(Items(j, key)[i], "links")
\* A facet, a publication, or a publication of a group has no links key.
LacksLinks(j) ==
  \/ NoLinksIn(j, "facets")
  \/ NoLinksIn(j, "publications")
  \/ \E i \in DOMAIN Items(j, "groups") : NoLinksIn(Items(j, "groups")[i], "publications")

\* C28: links is required of a Facet and of a Publication and optional for a
\* Feed and a FeedGroup.  A Feed document with a facet or a publication
\* without a links key fails to parse; the missing links key of the feed
\* itself or of a group is never the error, and gives the empty list when
\* the document parses; and a feed holding a facet made by Facet::new, once
\* encoded, parses back with the same facet.
C28_LinksRequired ==
  /\ (ty = "Feed" /\ Parsed) =>
       /\ LacksLinks(src) => ~tree.ok
       /\ (LacksLinks(src) /\ ~LacksTitle(src)) => tree = Err("missing field", "links")
       /\ ~LacksLinks(src) => tree # Err("missing field", "links")
       /\ (tree.ok /\ ~Has(src, "links")) => tree.val.links = << >>
       /\ tree.ok =>
            \A i \in DOMAIN tree.val.groups :
              ~Has(Items(src, "groups")[i], "links") => tree.val.groups[i].links = << >>
  /\ (ty = "Feed" /\ Built /\ pc = "done" /\ tree.val.facets # << >>) =>
       /\ back.ok
       /\ back.val.facets = tree.val.facets
C28_Witness ==
  /\ ty = "Feed" /\ pc = "parsed"
  /\ src = FeedWith("facets", JObj(<< <<"metadata", Titled>> >>))
  /\ tree = Err("missing field", "links")

\* C29: a list field declared without a shorthand reducer accepts only a
\* sequence: the document with the bare element (or null) under it fails to
\* parse, the one with the one-element sequence parses; under the language
\* of publication metadata and the conformsTo of accessibility metadata the
\* bare element parses, to the tree of the one-element sequence.
C29_SequenceOnly ==
  Parsed =>
    /\ \A c \in SequenceOnlyFields :
         ty = ListFieldType(c) =>
           /\ src \in {ListFieldDoc(c, ListFieldElem(c)), ListFieldDoc(c, JNull)} => ~tree.ok
           /\ src \in {ListFieldDoc(c, JSeq(<<ListFieldElem(c)>>)), ListFieldDoc(c, JSeq(<< >>))} =>
                tree.ok
    /\ \A c \in ShorthandListFields :
         (ty = ListFieldType(c) /\ src = ListFieldDoc(c, ListFieldElem(c))) =>
           /\ tree.ok
           /\ tree = Deserialize(ty, ListFieldDoc(c, JSeq(<<ListFieldElem(c)>>)))
\* A link whose language is the bare tag "en" has failed to parse.
C29_Witness ==
  /\ ty = "Link" /\ pc = "parsed"
  /\ src = ListFieldDoc("Link.language", JStr("en"))
  /\ tree = Err("invalid type", "language")

\* The strings attached to the error of a report.
Reported(report) == {report.context[i] : i \in DOMAIN report.context}
\* The run ended in a failure of reading or parsing.
Failed == exit # << >> /\ (~file.readable \/ ~Deserialize("Feed", file.content).ok)

\* C30: the validate example parses the file as a Feed and prints the
\* pretty-printed feed; when the file cannot be read or parsed it prints no
\* feed, reports an error that holds the path of the file together with the
\* underlying error, and exits with a non-zero status.
C30_Cli ==
  exit # << >> =>
    IF Failed
    THEN /\ stdout = << >>
         /\ Len(stderr) = 1
         /\ file.path \in Reported(stderr[1])
         /\ stderr[1].error =
              (IF file.readable THEN Deserialize("Feed", file.content) ELSE IoError)
         /\ exit[1] # Success
    ELSE /\ stdout = <<to_string_pretty("Feed", Deserialize("Feed", file.content).val)>>
         /\ stderr = << >>
         /\ exit = <<Success>>
====
